---- MODULE Spec2Model ----
(***************************************************************************)
(* Ledger-consistency core of the loyalty API (apps/api/src/app.ts) over   *)
(* the PostgreSQL schema of packages/db/migrations/001_init.sql.           *)
(*                                                                         *)
(* Every request handler is a process; every SQL statement it awaits is    *)
(* one step.  A transaction (BEGIN .. COMMIT/ROLLBACK on a pooled client)  *)
(* keeps its inserted rows in tx[p] until COMMIT publishes them; the       *)
(* store runs at PostgreSQL's default READ COMMITTED level, so every       *)
(* statement reads the committed tables plus the rows of its own           *)
(* transaction.  BEGIN changes and reads no shared state and is taken      *)
(* together with the first statement that follows it.                      *)
(***************************************************************************)
EXTENDS Integers, FiniteSets, Sequences, TLC

\* ------------------------------------------------------------------ bounds
MaxRequests == 2   \* requests of the general specifications
MaxRedeems  == 3   \* concurrent redeems of SpecRedeems
MaxEarns    == 3   \* concurrent earns of SpecEarnSameKey
MaxCalls    == 3   \* requests of SpecReplay: a call, another one, a replay
MaxNow      == 3   \* the last instant of the clock of SpecRules

MaxOf(a, b) == IF a >= b THEN a ELSE b
Procs == 1 .. MaxOf(MaxOf(MaxRequests, MaxCalls), MaxOf(MaxRedeems, MaxEarns))

NULL == <<>>

\* ------------------------------------------------- rows that never change
\* app.ts has no statement that writes merchants, customers or rewards.
merchants == {"m1", "m2"}

customers ==
   { [id |-> "c1", merchant_id |-> "m1"],
     [id |-> "c2", merchant_id |-> "m1"],
     [id |-> "c3", merchant_id |-> "m2"] }

CustomerIds == { c.id : c \in customers }

rewards ==
   { [id |-> "r1", merchant_id |-> "m1", points_cost |-> 50, active |-> TRUE],
     [id |-> "r2", merchant_id |-> "m1", points_cost |-> 30, active |-> TRUE],
     [id |-> "r3", merchant_id |-> "m1", points_cost |-> 50, active |-> FALSE],
     [id |-> "r4", merchant_id |-> "m2", points_cost |-> 50, active |-> TRUE] }

\* the public tokens and the row each one names (status is state, below)
TokenRows ==
   { [public_token |-> "t1", customer_id |-> "c1", merchant_id |-> "m1"],
     [public_token |-> "t2", customer_id |-> "c2", merchant_id |-> "m1"],
     [public_token |-> "t3", customer_id |-> "c3", merchant_id |-> "m2"] }

PublicTokens == { t.public_token : t \in TokenRows }

StaffOf(m) == IF m = "m1" THEN "s1" ELSE "s2"

\* the rows of staff_users (disabled stands for disabled_at IS NOT NULL)
staff_users ==
   { [id |-> "s1", merchant_id |-> "m1", role |-> "owner", disabled |-> FALSE],
     [id |-> "s2", merchant_id |-> "m2", role |-> "owner", disabled |-> FALSE],
     [id |-> "s3", merchant_id |-> "m1", role |-> "manager", disabled |-> FALSE],
     [id |-> "s4", merchant_id |-> "m1", role |-> "cashier", disabled |-> FALSE],
     [id |-> "s5", merchant_id |-> "m1", role |-> "owner", disabled |-> TRUE] }

\* the Authorization header of a request: absent, a token that jwt.verify
\* rejects, or a token whose verified payload carries sub and merchant_id
\* ("" where the payload lacks one)
NoHeader == [ kind |-> "none", sub |-> "", merchant_id |-> "" ]
BadToken == [ kind |-> "garbage", sub |-> "", merchant_id |-> "" ]
Bearer(s, m) == [ kind |-> "jwt", sub |-> s, merchant_id |-> m ]

\* ------------------------------------------------------------------- state
VARIABLES
   ledger_entries,          \* committed rows of ledger_entries
   redemptions,             \* committed rows of redemptions
   audit_logs,              \* committed rows of audit_logs
   loyalty_rules_versions,  \* committed rows of loyalty_rules_versions
   token_status,            \* customer_tokens.status by public_token
   tx,                      \* per request: rows inserted, not yet committed
   row_lock,                \* per customer row: requests holding FOR UPDATE
   now,                     \* the store's clock, now()
   req,                     \* per request: the parsed request body
   session_rows,            \* committed rows that session init inserted
                            \* into customers, customer_tokens and
                            \* customer_devices
   pc,                      \* per request: the statement it runs next
   loc,                     \* per request: the handler's local variables
   resp,                    \* per request: the reply sent
   prior,                   \* per request: the committed ledger row that
                            \* held its (merchant, key) when it started
   aborted                  \* per request: the statement at which its
                            \* transaction was rolled back

vars == << ledger_entries, redemptions, audit_logs, loyalty_rules_versions,
           token_status, tx, row_lock, now, req, session_rows, pc, loc,
           resp, prior, aborted >>

db == << ledger_entries, redemptions, audit_logs, loyalty_rules_versions,
         token_status >>

\* ------------------------------------------------------------ identifiers
\* gen_random_uuid() / crypto.randomUUID(): a request inserts at most one
\* row per table, so the request number makes the identifier unique.
\* customers, customer_tokens and customer_devices as the migration's seed
\* and earlier session inits left them: the device d1 of merchant m1 is
\* bound to the customer c1, whose token is t1 of TokenRows
SeedSessions ==
   [ customers |-> {}, customer_tokens |-> {},
     customer_devices |->
        { [ merchant_id |-> "m1", device_id |-> "d1", customer_id |-> "c1" ] } ]

LedgerId(p)     == << "le", p >>
RedemptionId(p) == << "rd", p >>
AuditId(p)      == << "au", p >>
RuleId(p)       == << "rv", p >>

EmptyTx ==
   [ ledger_entries |-> {}, redemptions |-> {}, audit_logs |-> {},
     loyalty_rules_versions |-> {}, customers |-> {},
     customer_tokens |-> {}, customer_devices |-> {} ]

NoLocals ==
   [ merchant_id |-> "", customer_id |-> "", token_id |-> "",
     rules_id |-> NULL, points |-> 0,
     reward_id |-> "", points_cost |-> 0, balance |-> 0, newBalance |-> 0,
     ledgerEntryId |-> NULL, idempotent |-> FALSE,
     resolvedRedemptionId |-> NULL, nextVersion |-> 0,
     staff |-> NULL ]

NoReply ==
   [ code |-> "", ledger_entry_id |-> NULL, redemption_id |-> NULL,
     balance |-> 0, points_delta |-> 0, idempotent |-> FALSE,
     version |-> 0, entries |-> << >>, public_token |-> "" ]

Reply(code) == [ NoReply EXCEPT !.code = code ]

NoRequest ==
   [ op |-> "none", public_token |-> "", idempotency_key |-> "",
     amount |-> 0, points_delta |-> 0, reward_id |-> "",
     merchant_id |-> "", customer_id |-> "", points_per_dollar |-> 0,
     rounding |-> "", promo_multiplier |-> 0, active_from |-> 0,
     authorization |-> NoHeader, merchant_slug |-> "", device_id |-> "" ]

\* ------------------------------------------------------------ the store
RECURSIVE SumDelta(_)
SumDelta(rows) ==
   IF rows = {} THEN 0
   ELSE LET r == CHOOSE x \in rows : TRUE
        IN  r.points_delta + SumDelta(rows \ {r})

\* what a statement of request p reads from ledger_entries (READ COMMITTED)
VisibleLedger(p) == ledger_entries \cup tx[p].ledger_entries

\* a balance query that forgets the merchant_id condition
BalanceOfCustomer(rows, m, c) ==
   SumDelta({ e \in rows : e.customer_id = c })

\* SELECT COALESCE(SUM(points_delta), 0) ... WHERE merchant_id AND customer_id
BalanceOf(rows, m, c) ==
   SumDelta({ e \in rows : e.merchant_id = m /\ e.customer_id = c })

\* the token lookup without its status condition
TokenOfAnyStatus(t) == { r \in TokenRows : r.public_token = t }

\* SELECT customer_id, merchant_id FROM customer_tokens
\*  WHERE public_token = $1 AND status = 'active' LIMIT 1
ActiveToken(t) ==
   { r \in TokenRows : r.public_token = t /\ token_status[t] = "active" }

\* ledger_entries_merchant_idempotency_uq: rows under the same key
KeyRows(rows, m, k) ==
   { e \in rows : e.merchant_id = m /\ e.idempotency_key = k }

\* a unique index that does not see the rows of transactions in progress
KeyNeverHeld(p, m, k) == FALSE

\* An insert that meets a row of a transaction still in progress under the
\* same unique key waits until that transaction commits or rolls back.
KeyHeldByOther(p, m, k) ==
   \E q \in Procs \ {p} : KeyRows(tx[q].ledger_entries, m, k) # {}

\* the INSERT without its ON CONFLICT clause and without the unique index
LedgerAfterPlainInsert(p, row) == tx[p].ledger_entries \cup {row}

\* INSERT INTO ledger_entries ... ON CONFLICT (merchant_id, idempotency_key)
\* DO NOTHING RETURNING id: the rows request p holds uncommitted afterwards
LedgerAfterInsert(p, row) ==
   IF KeyRows(VisibleLedger(p), row.merchant_id, row.idempotency_key) # {}
   THEN tx[p].ledger_entries
   ELSE tx[p].ledger_entries \cup {row}

\* a COMMIT of writes that replace the merchant's rows instead of adding to
\* them
CommittedReplacing(table, written) ==
   { r \in table : \A w \in written : w.merchant_id # r.merchant_id }
      \cup written

\* COMMIT: the rows of the transaction become part of the committed tables
Committed(table, written) == table \cup written

\* a ROLLBACK that does not undo: the statements had run in autocommit mode
RolledBackKeepingWrites(table, written) == table \cup written

\* ROLLBACK: the committed table without the transaction's rows
RolledBack(table, written) == table

\* a row lock that is never taken (the SELECT without FOR UPDATE)
LockNeverHeld(p, c) == TRUE

\* SELECT id FROM customers WHERE id AND merchant_id FOR UPDATE is granted
\* when no other transaction holds the lock on that row
LockGranted(p, c) == row_lock[c] \subseteq {p}

\* a client returned to the pool with its transaction still open
LocksKept(p) == row_lock

\* COMMIT and ROLLBACK release the row locks of the transaction
ReleaseLocks(p) == [ c \in CustomerIds |-> row_lock[c] \ {p} ]

LedgerRow(id, m, c, type, delta, source, ext, rv, key, at) ==
   [ id |-> id, merchant_id |-> m, customer_id |-> c, type |-> type,
     points_delta |-> delta, source |-> source, external_id |-> ext,
     rules_version_id |-> rv, idempotency_key |-> key, created_at |-> at ]

\* ------------------------------------------------------ points calculator
\* JavaScript numbers are IEEE 754 binary64 values.  A positive number is
\* kept as [m, e], the value m * 2^e, with m a natural number written as
\* its sequence of digits in base 2^10, least significant first (<< >> is
\* 0).  Exponents stay far from the ends of the binary64 range for every
\* amount and rule considered here, so subnormal numbers and overflow do
\* not arise.
Precision == 53
DigitBits == 10
Base == 2 ^ DigitBits
ScaleDigits == 7

\* the digits of the natural number n
RECURSIVE Digits(_)
Digits(n) == IF n = 0 THEN << >> ELSE << n % Base >> \o Digits(n \div Base)

\* the natural number with digits d (it must fit the integers of the checker)
RECURSIVE DigitsValue(_)
DigitsValue(d) ==
   IF d = << >> THEN 0 ELSE d[1] + Base * DigitsValue(Tail(d))

\* without leading zero digits
RECURSIVE Strip(_)
Strip(d) ==
   IF d = << >> \/ d[Len(d)] # 0 THEN d ELSE Strip(SubSeq(d, 1, Len(d) - 1))

\* the number of bits of d
BitLen(d) ==
   IF d = << >> THEN 0
   ELSE DigitBits * (Len(d) - 1)
           + (CHOOSE k \in 1 .. DigitBits :
                 2 ^ (k - 1) <= d[Len(d)] /\ d[Len(d)] < 2 ^ k)

\* bit i of d, bit 0 being the least significant
BitAt(d, i) ==
   IF i \div DigitBits >= Len(d) THEN 0
   ELSE (d[i \div DigitBits + 1] \div 2 ^ (i % DigitBits)) % 2

RECURSIVE DigitFrom(_, _, _)
DigitFrom(d, i, k) ==
   IF k = 0 THEN 0 ELSE BitAt(d, i) + 2 * DigitFrom(d, i + 1, k - 1)

\* d \div 2^s
ShiftRight(d, s) ==
   LET n == BitLen(d) - s
   IN  IF n <= 0 THEN << >>
       ELSE Strip([ j \in 1 .. (n + DigitBits - 1) \div DigitBits |->
                       DigitFrom(d, s + DigitBits * (j - 1), DigitBits) ])

\* d + c for a small c
RECURSIVE AddSmall(_, _)
AddSmall(d, c) ==
   IF c = 0 THEN d
   ELSE IF d = << >> THEN Digits(c)
   ELSE << (d[1] + c) % Base >> \o AddSmall(Tail(d), (d[1] + c) \div Base)

\* the sum of x[i] * y[k + 1 - i]: column k of the product
RECURSIVE Column(_, _, _, _)
Column(x, y, k, i) ==
   IF i > Len(x) \/ i > k THEN 0
   ELSE (IF k + 1 - i <= Len(y) THEN x[i] * y[k + 1 - i] ELSE 0)
           + Column(x, y, k, i + 1)

RECURSIVE Carry(_, _, _, _)
Carry(x, y, k, c) ==
   IF k > Len(x) + Len(y) THEN << >>
   ELSE LET t == Column(x, y, k, 1) + c
        IN  << t % Base >> \o Carry(x, y, k + 1, t \div Base)

\* x * y
MulDigits(x, y) == Strip(Carry(x, y, 1, 0))

\* d divided by the small natural n, from the most significant digit:
\* quotient q and remainder r
RECURSIVE DivFrom(_, _, _, _, _)
DivFrom(d, n, i, rem, q) ==
   IF i = 0 THEN [ q |-> Strip(q), r |-> rem ]
   ELSE LET t == Base * rem + d[i]
        IN  DivFrom(d, n, i - 1, t % n, << t \div n >> \o q)

DivDigits(d, n) == DivFrom(d, n, Len(d), 0, << >>)

\* the binary64 value nearest to (d + a fraction that is > 0 iff sticky)
\* * 2^e, ties to the even significand
RoundToNearestEven(d, sticky, e) ==
   LET s == BitLen(d) - Precision
   IN  IF s <= 0 THEN [ m |-> d, e |-> e ]
       ELSE LET m    == ShiftRight(d, s)
                half == BitAt(d, s - 1) = 1
                more == sticky \/ \E i \in 0 .. s - 2 : BitAt(d, i) = 1
                up   == half /\ (more \/ BitAt(m, 0) = 1)
            IN  [ m |-> IF up THEN AddSmall(m, 1) ELSE m, e |-> e + s ]

\* the number that the decimal literal n / d denotes (JSON.parse of the
\* request body, Number() of a numeric column read as text)
Number(n, d) ==
   LET div == DivDigits([ i \in 1 .. ScaleDigits |-> 0 ] \o Digits(n), d)
   IN  RoundToNearestEven(div.q, div.r # 0, 0 - DigitBits * ScaleDigits)

\* a * b
Times(a, b) == RoundToNearestEven(MulDigits(a.m, b.m), FALSE, a.e + b.e)

MathFloor(a) ==
   IF a.e >= 0
   THEN DigitsValue(MulDigits(a.m, Digits(2 ^ a.e)))
   ELSE DigitsValue(ShiftRight(a.m, 0 - a.e))

\* Math.round: the nearest integer, halves towards +Infinity
MathRound(a) ==
   IF a.e >= 0 THEN MathFloor(a)
   ELSE MathFloor(a) + BitAt(a.m, 0 - a.e - 1)

\* the calculation in exact arithmetic: num / den rounded to an integer
Round(num, den, rounding) ==
   IF rounding = "nearest"
   THEN (2 * num + den) \div (2 * den)      \* halves go up
   ELSE num \div den                        \* floor

\* the points calculator in exact arithmetic
exactPoints(amount, rule) ==
   Round(rule.points_per_dollar * rule.promo_multiplier * amount,
         1000000, rule.rounding)

\* The purchase amounts and the rule columns that the requests and rule
\* versions of the specifications below take, in hundredths.
Amounts == {1, 29, 35, 410, 500, 820, 1299}

Rates == {100, 500, 1000, 2000, 10000}

Multipliers == {100, 150}

Roundings == {"floor", "nearest"}

\* rawPoints = Number(points_per_dollar) * Number(promo_multiplier) * amount
\* points = rounding === "nearest" ? Math.round(rawPoints)
\*                                 : Math.floor(rawPoints)
\* as a function of the amount and the three rule columns
pointsOf ==
   [ amount \in Amounts, points_per_dollar \in Rates,
     promo_multiplier \in Multipliers, rounding \in Roundings |->
        LET rawPoints == Times(Times(Number(points_per_dollar, 100),
                                     Number(promo_multiplier, 100)),
                               Number(amount, 100))
        IN  IF rounding = "nearest" THEN MathRound(rawPoints)
            ELSE MathFloor(rawPoints) ]

\* computePoints(amount, rule)
computePoints(amount, rule) ==
   pointsOf[amount, rule.points_per_dollar, rule.promo_multiplier,
            rule.rounding]

\* the lookup without its active_from condition: the newest version
LatestRules(m) ==
   LET ok == { r \in loyalty_rules_versions : r.merchant_id = m }
   IN  { r \in ok : \A o \in ok : o.version <= r.version }

\* SELECT ... FROM loyalty_rules_versions WHERE merchant_id = $1
\*  AND active_from <= now() ORDER BY version DESC LIMIT 1
ActiveRules(m) ==
   LET ok == { r \in loyalty_rules_versions :
                  r.merchant_id = m /\ r.active_from <= now }
   IN  { r \in ok : \A o \in ok : o.version <= r.version }

\* -------------------------------------------------- ends of a transaction
\* catch (error) { ROLLBACK; throw error } finally { client.release() }
\* an error path that cleans up by deleting the entry under the request's key
LedgerAfterCompensatingDelete(p) ==
   ledger_entries \ KeyRows(ledger_entries, loc[p].merchant_id,
                            req[p].idempotency_key)

\* ledger_entries once the ROLLBACK of request p has run
LedgerAfterRollback(p) == RolledBack(ledger_entries, tx[p].ledger_entries)

Rollback(p, code) ==
   /\ ledger_entries' = LedgerAfterRollback(p)
   /\ redemptions' = RolledBack(redemptions, tx[p].redemptions)
   /\ audit_logs' = RolledBack(audit_logs, tx[p].audit_logs)
   /\ loyalty_rules_versions' =
         RolledBack(loyalty_rules_versions, tx[p].loyalty_rules_versions)
   /\ tx' = [tx EXCEPT ![p] = EmptyTx]
   /\ row_lock' = ReleaseLocks(p)
   /\ pc' = [pc EXCEPT ![p] = "done"]
   /\ loc' = [loc EXCEPT ![p] = NoLocals]
   /\ resp' = [resp EXCEPT ![p] = Reply(code)]
   /\ aborted' = [aborted EXCEPT ![p] = pc[p]]
   /\ UNCHANGED << token_status, now, req, session_rows, prior >>

\* COMMIT, then the handler returns `reply`
Commit(p, reply) ==
   /\ ledger_entries' = Committed(ledger_entries, tx[p].ledger_entries)
   /\ redemptions' = Committed(redemptions, tx[p].redemptions)
   /\ audit_logs' = Committed(audit_logs, tx[p].audit_logs)
   /\ loyalty_rules_versions' =
         Committed(loyalty_rules_versions, tx[p].loyalty_rules_versions)
   /\ tx' = [tx EXCEPT ![p] = EmptyTx]
   /\ row_lock' = ReleaseLocks(p)
   /\ pc' = [pc EXCEPT ![p] = "done"]
   /\ loc' = [loc EXCEPT ![p] = NoLocals]
   /\ resp' = [resp EXCEPT ![p] = reply]
   /\ UNCHANGED << token_status, now, req, session_rows, prior, aborted >>

\* a handler throws before it has opened a transaction
Reject(p, code) ==
   /\ pc' = [pc EXCEPT ![p] = "done"]
   /\ loc' = [loc EXCEPT ![p] = NoLocals]
   /\ resp' = [resp EXCEPT ![p] = Reply(code)]
   /\ UNCHANGED << db, tx, row_lock, now, req, session_rows, prior, aborted >>

\* requests are numbered in the order in which their handlers start
MayStart(p) ==
   /\ pc[p] = "idle"
   /\ req[p].op # "none"
   /\ \A q \in Procs : q < p => pc[q] # "idle"

\* the handler's first statement: the token lookup shared by earn, adjust
\* and redeem
TokenLookup(p, next) ==
   /\ MayStart(p)
   /\ LET found == ActiveToken(req[p].public_token)
      IN  IF found = {}
          THEN Reject(p, "NOT_FOUND")
          ELSE LET token == CHOOSE t \in found : TRUE
                   held  == KeyRows(ledger_entries, token.merchant_id,
                                    req[p].idempotency_key)
               IN  /\ pc' = [pc EXCEPT ![p] = next]
                   /\ loc' = [loc EXCEPT ![p].merchant_id = token.merchant_id,
                                         ![p].customer_id = token.customer_id]
                   /\ prior' = [prior EXCEPT ![p] =
                                   IF held = {} THEN NULL
                                   ELSE CHOOSE e \in held : TRUE]
                   /\ UNCHANGED << db, tx, row_lock, now, req, session_rows, resp, aborted >>

\* ----------------------------------------------- staffAuth, requireRole
\* SELECT role, disabled_at FROM staff_users WHERE id = $1 AND merchant_id = $2
StaffRows(id, m) == { u \in staff_users : u.id = id /\ u.merchant_id = m }

\* the preHandler staffAuth: 401 without a header, with a token that does
\* not verify or with a payload that lacks sub or merchant_id; 403 when the
\* staff row is missing or disabled; otherwise request.staff is set
staffAuth(p) ==
   /\ pc[p] = "arrived"
   /\ LET header == req[p].authorization
          staff  == StaffRows(header.sub, header.merchant_id)
      IN  IF header.kind # "jwt" \/ header.sub = "" \/ header.merchant_id = ""
          THEN Reject(p, "UNAUTHENTICATED")
          ELSE IF staff = {} \/ \E u \in staff : u.disabled
          THEN Reject(p, "FORBIDDEN")
          ELSE /\ loc' = [loc EXCEPT ![p].staff =
                            [ staffUserId |-> header.sub,
                              merchantId |-> header.merchant_id,
                              role |-> (CHOOSE u \in staff : TRUE).role ]]
               /\ pc' = [pc EXCEPT ![p] = "role"]
               /\ UNCHANGED << db, tx, row_lock, now, req, session_rows, resp, prior, aborted >>

\* a gate that every role passes
AnyRole(op) == {"owner", "manager", "cashier"}

\* the roles each route passes to requireRole
AllowedRoles(op) ==
   IF op \in {"adjust", "revoke"} THEN {"owner"}
   ELSE IF op = "rules" THEN {"owner", "manager"}
   ELSE {"owner", "manager", "cashier"}

\* the preHandler requireRole(allowed); after it the handler is entered
requireRole(p) ==
   /\ pc[p] = "role"
   /\ IF loc[p].staff.role \in AllowedRoles(req[p].op)
      THEN /\ pc' = [pc EXCEPT ![p] = "idle"]
           /\ UNCHANGED << db, tx, row_lock, now, req, session_rows, loc, resp, prior,
                           aborted >>
      ELSE Reject(p, "FORBIDDEN")

\* ------------------------------------------------------- request schemas
\* The names of tokens, keys and ids stand for strings of full length (a
\* token is 43 characters of base64url, keys and ids are UUIDs); "tok" and
\* "key" are the strings themselves, and "rwd" is not a UUID.
Length(s) == IF s \in {"tok", "key", "rwd"} THEN 3 ELSE 36

IsUuid(s) == s # "rwd"

\* z.string().min(16)
PublicTokenSchema(t) == Length(t) >= 16

\* z.string().min(8)
IdempotencyKeySchema(k) == Length(k) >= 8

\* z.object({ public_token, amount: z.number().positive(), idempotency_key })
EarnSchema(r) ==
   /\ PublicTokenSchema(r.public_token)
   /\ r.amount > 0
   /\ IdempotencyKeySchema(r.idempotency_key)

\* z.object({ public_token, reward_id: z.string().uuid(), idempotency_key })
RedeemSchema(r) ==
   /\ PublicTokenSchema(r.public_token)
   /\ IsUuid(r.reward_id)
   /\ IdempotencyKeySchema(r.idempotency_key)

\* the body schema of POST /adjust: public_token is z.string(), points_delta
\* z.number().int(), idempotency_key z.string().min(8)
AdjustBody(r) == Length(r.idempotency_key) >= 8

\* schema.parse(request.body) throws a ZodError, which the error handler
\* answers 400 VALIDATION_ERROR; otherwise the handler goes on to its token
\* lookup
Parse(p, valid, next) ==
   IF valid THEN TokenLookup(p, next)
   ELSE MayStart(p) /\ Reject(p, "VALIDATION_ERROR")

\* ------------------------------------------------------------ POST /earn
EarnTokenLookup(p) ==
   /\ req[p].op = "earn"
   /\ Parse(p, EarnSchema(req[p]), "earn_rules")

EarnRulesLookup(p) ==
   /\ pc[p] = "earn_rules"
   /\ LET found == ActiveRules(loc[p].merchant_id)
      IN  IF found = {}
          THEN Reject(p, "RULES_MISSING")
          ELSE LET rules == CHOOSE r \in found : TRUE
               IN  /\ loc' = [loc EXCEPT
                                 ![p].rules_id = rules.id,
                                 ![p].points = computePoints(req[p].amount, rules)]
                   /\ pc' = [pc EXCEPT ![p] = "earn_insert"]
                   /\ UNCHANGED << db, tx, row_lock, now, req, session_rows, resp, prior, aborted >>

\* the part shared by the three ledger inserts: ledgerEntryId = inserted?.id,
\* idempotent = !ledgerEntryId
InsertLedger(p, row, created, replayed) ==
   /\ ~ KeyHeldByOther(p, row.merchant_id, row.idempotency_key)
   /\ LET after    == LedgerAfterInsert(p, row)
          inserted == row \in after
      IN  /\ tx' = [tx EXCEPT ![p].ledger_entries = after]
          /\ loc' = [loc EXCEPT
                        ![p].ledgerEntryId = IF inserted THEN row.id ELSE NULL,
                        ![p].idempotent = ~ inserted,
                        ![p].resolvedRedemptionId = row.external_id]
          /\ pc' = [pc EXCEPT ![p] = IF inserted THEN created ELSE replayed]
   /\ UNCHANGED << db, row_lock, now, req, session_rows, resp, prior, aborted >>

\* the lookup without its throw: a missing row leaves ledgerEntryId undefined
LookupExistingUnchecked(p, next) ==
   LET found == KeyRows(VisibleLedger(p), loc[p].merchant_id,
                        req[p].idempotency_key)
   IN  /\ loc' = [loc EXCEPT
                     ![p].ledgerEntryId =
                        IF found = {} THEN NULL
                        ELSE (CHOOSE e \in found : TRUE).id]
       /\ pc' = [pc EXCEPT ![p] = next]
       /\ UNCHANGED << db, tx, row_lock, now, req, session_rows, resp, prior, aborted >>

\* SELECT id[, external_id] FROM ledger_entries WHERE merchant_id = $1 AND
\* idempotency_key = $2 LIMIT 1, and the throw when it finds no row
LookupExisting(p, next) ==
   LET found == KeyRows(VisibleLedger(p), loc[p].merchant_id,
                        req[p].idempotency_key)
   IN  IF found = {}
       THEN Rollback(p, "IDEMPOTENT_REPLAY")
       ELSE LET existing == CHOOSE e \in found : TRUE
            IN  /\ loc' = [loc EXCEPT
                              ![p].ledgerEntryId = existing.id,
                              ![p].resolvedRedemptionId =
                                 IF existing.external_id = NULL
                                 THEN loc[p].resolvedRedemptionId
                                 ELSE existing.external_id]
                /\ pc' = [pc EXCEPT ![p] = next]
                /\ UNCHANGED << db, tx, row_lock, now, req, session_rows, resp, prior, aborted >>

\* the SUM read sent on the pool: it does not see the transaction's own row
ReadBalanceOnPool(p, next) ==
   /\ loc' = [loc EXCEPT ![p].newBalance =
                 BalanceOf(ledger_entries, loc[p].merchant_id,
                           loc[p].customer_id)]
   /\ pc' = [pc EXCEPT ![p] = next]
   /\ UNCHANGED << db, tx, row_lock, now, req, session_rows, resp, prior,
                   aborted >>

\* the SUM read that precedes COMMIT (balanceResult, newBalanceResult)
ReadBalance(p, next) ==
   /\ loc' = [loc EXCEPT ![p].newBalance =
                 BalanceOf(VisibleLedger(p), loc[p].merchant_id,
                           loc[p].customer_id)]
   /\ pc' = [pc EXCEPT ![p] = next]
   /\ UNCHANGED << db, tx, row_lock, now, req, session_rows, resp, prior, aborted >>

\* await logAudit({...}, client)
AuditRow(p, action, targetType, targetId) ==
   [ id |-> AuditId(p), merchant_id |-> loc[p].merchant_id,
     staff_user_id |->
        IF loc[p].staff = NULL THEN StaffOf(loc[p].merchant_id)
        ELSE loc[p].staff.staffUserId,
     action |-> action,
     target_type |-> targetType, target_id |-> targetId,
     idempotency_key |-> req[p].idempotency_key ]

\* logAudit without its client argument: the insert goes to the pool and is
\* committed at once, outside the handler's transaction
logAuditOnPool(p, row, next) ==
   /\ audit_logs' = audit_logs \cup {row}
   /\ pc' = [pc EXCEPT ![p] = next]
   /\ UNCHANGED << ledger_entries, redemptions, loyalty_rules_versions,
                   token_status, tx, row_lock, now, req, session_rows, loc, resp, prior,
                   aborted >>

logAudit(p, row, next) ==
   /\ tx' = [tx EXCEPT ![p].audit_logs = @ \cup {row}]
   /\ pc' = [pc EXCEPT ![p] = next]
   /\ UNCHANGED << db, row_lock, now, req, session_rows, loc, resp, prior, aborted >>

EarnInsert(p) ==
   /\ pc[p] = "earn_insert"
   /\ InsertLedger(p,
         LedgerRow(LedgerId(p), loc[p].merchant_id, loc[p].customer_id,
                   "earn", loc[p].points, "terminal", NULL,
                   loc[p].rules_id, req[p].idempotency_key, now),
         "earn_balance", "earn_existing")

EarnExisting(p) ==
   /\ pc[p] = "earn_existing"
   /\ LookupExisting(p, "earn_balance")

EarnBalance(p) ==
   /\ pc[p] = "earn_balance"
   /\ ReadBalance(p, "earn_commit")

EarnCommit(p) ==
   /\ pc[p] = "earn_commit"
   /\ Commit(p, [ NoReply EXCEPT
                     !.code = "OK",
                     !.ledger_entry_id = loc[p].ledgerEntryId,
                     !.balance = loc[p].newBalance,
                     !.points_delta = loc[p].points,
                     !.idempotent = loc[p].idempotent ])

\* ---------------------------------------------------------- POST /adjust
AdjustTokenLookup(p) ==
   /\ req[p].op = "adjust"
   /\ Parse(p, AdjustBody(req[p]), "adj_insert")

AdjustInsert(p) ==
   /\ pc[p] = "adj_insert"
   /\ InsertLedger(p,
         LedgerRow(LedgerId(p), loc[p].merchant_id, loc[p].customer_id,
                   "adjust", req[p].points_delta, "admin", NULL, NULL,
                   req[p].idempotency_key, now),
         "adj_audit", "adj_existing")

AdjustExisting(p) ==
   /\ pc[p] = "adj_existing"
   /\ LookupExisting(p, "adj_audit")

AdjustAudit(p) ==
   /\ pc[p] = "adj_audit"
   /\ logAudit(p, AuditRow(p, "adjustment_created", "ledger_entry",
                           loc[p].ledgerEntryId), "adj_balance")

AdjustBalance(p) ==
   /\ pc[p] = "adj_balance"
   /\ ReadBalance(p, "adj_commit")

AdjustCommit(p) ==
   /\ pc[p] = "adj_commit"
   /\ Commit(p, [ NoReply EXCEPT
                     !.code = "OK",
                     !.ledger_entry_id = loc[p].ledgerEntryId,
                     !.balance = loc[p].newBalance,
                     !.idempotent = loc[p].idempotent ])

\* ---------------------------------------------------------- POST /redeem
RedeemTokenLookup(p) ==
   /\ req[p].op = "redeem"
   /\ Parse(p, RedeemSchema(req[p]), "rdm_lock")

\* BEGIN; SELECT id FROM customers WHERE id = $1 AND merchant_id = $2
\* FOR UPDATE
RedeemLock(p) ==
   /\ pc[p] = "rdm_lock"
   /\ LockGranted(p, loc[p].customer_id)
   /\ row_lock' = [row_lock EXCEPT ![loc[p].customer_id] = @ \cup {p}]
   /\ pc' = [pc EXCEPT ![p] = "rdm_reward"]
   /\ UNCHANGED << db, tx, now, req, session_rows, loc, resp, prior, aborted >>

\* a reward lookup by id alone
RewardsById(id, m) == { r \in rewards : r.id = id }

\* SELECT id, points_cost FROM rewards WHERE id = $1 AND merchant_id = $2
\*  AND active = true LIMIT 1
UsableRewards(id, m) ==
   { r \in rewards : r.id = id /\ r.merchant_id = m /\ r.active }

RedeemReward(p) ==
   /\ pc[p] = "rdm_reward"
   /\ LET found == UsableRewards(req[p].reward_id, loc[p].merchant_id)
      IN  IF found = {}
          THEN Rollback(p, "NOT_FOUND")
          ELSE LET reward == CHOOSE r \in found : TRUE
               IN  /\ loc' = [loc EXCEPT
                                 ![p].reward_id = reward.id,
                                 ![p].points_cost = reward.points_cost]
                   /\ pc' = [pc EXCEPT ![p] = "rdm_balance"]
                   /\ UNCHANGED << db, tx, row_lock, now, req, session_rows, resp, prior, aborted >>

\* the check written with <= in place of <
InsufficientPointsOrEqual(balance, cost) == balance <= cost

\* if (balance < reward.points_cost) throw INSUFFICIENT_POINTS
InsufficientPoints(balance, cost) == balance < cost

\* the balance read under the lock, and the check
RedeemBalance(p) ==
   /\ pc[p] = "rdm_balance"
   /\ LET balance == BalanceOf(VisibleLedger(p), loc[p].merchant_id,
                               loc[p].customer_id)
      IN  IF InsufficientPoints(balance, loc[p].points_cost)
          THEN Rollback(p, "INSUFFICIENT_POINTS")
          ELSE /\ loc' = [loc EXCEPT ![p].balance = balance]
               /\ pc' = [pc EXCEPT ![p] = "rdm_insert"]
               /\ UNCHANGED << db, tx, row_lock, now, req, session_rows, resp, prior, aborted >>

RedeemInsert(p) ==
   /\ pc[p] = "rdm_insert"
   /\ InsertLedger(p,
         LedgerRow(LedgerId(p), loc[p].merchant_id, loc[p].customer_id,
                   "redeem", 0 - loc[p].points_cost, "terminal",
                   RedemptionId(p), NULL, req[p].idempotency_key, now),
         "rdm_redemption", "rdm_existing")

RedeemExisting(p) ==
   /\ pc[p] = "rdm_existing"
   /\ LookupExisting(p, "rdm_newbalance")

\* the redemption inserted under the column default gen_random_uuid()
\* instead of the id that the ledger entry carries as external_id
RedemptionRowDefaultId(p) ==
   [ id |-> << "rd", 0 - p >>, merchant_id |-> loc[p].merchant_id,
     customer_id |-> loc[p].customer_id, reward_id |-> loc[p].reward_id,
     points_cost |-> loc[p].points_cost, status |-> "approved" ]

\* INSERT INTO redemptions (id, merchant_id, customer_id, reward_id,
\*  points_cost, status) VALUES ($1, $2, $3, $4, $5, 'approved')
RedemptionRow(p) ==
   [ id |-> RedemptionId(p), merchant_id |-> loc[p].merchant_id,
     customer_id |-> loc[p].customer_id, reward_id |-> loc[p].reward_id,
     points_cost |-> loc[p].points_cost, status |-> "approved" ]

RedeemRedemption(p) ==
   /\ pc[p] = "rdm_redemption"
   /\ tx' = [tx EXCEPT ![p].redemptions = @ \cup {RedemptionRow(p)}]
   /\ pc' = [pc EXCEPT ![p] = "rdm_audit"]
   /\ UNCHANGED << db, row_lock, now, req, session_rows, loc, resp, prior, aborted >>

RedeemAudit(p) ==
   /\ pc[p] = "rdm_audit"
   /\ logAudit(p, AuditRow(p, "redemption_created", "redemption",
                           RedemptionId(p)), "rdm_newbalance")

RedeemNewBalance(p) ==
   /\ pc[p] = "rdm_newbalance"
   /\ ReadBalance(p, "rdm_commit")

RedeemCommit(p) ==
   /\ pc[p] = "rdm_commit"
   /\ Commit(p, [ NoReply EXCEPT
                     !.code = "OK",
                     !.redemption_id = loc[p].resolvedRedemptionId,
                     !.balance = loc[p].newBalance,
                     !.idempotent = loc[p].idempotent ])

\* ----------------------------------------------------------- POST /rules
RuleKeyRows(rows, m, v) ==
   { r \in rows : r.merchant_id = m /\ r.version = v }

RECURSIVE MaxVersion(_)
MaxVersion(rows) ==
   IF rows = {} THEN 0
   ELSE LET r == CHOOSE x \in rows : TRUE
            rest == MaxVersion(rows \ {r})
        IN  IF r.version > rest THEN r.version ELSE rest

\* BEGIN; SELECT COALESCE(MAX(version), 0) FROM loyalty_rules_versions
\* WHERE merchant_id = $1
RulesMaxVersion(p) ==
   /\ req[p].op = "rules"
   /\ MayStart(p)
   /\ loc' = [loc EXCEPT
                 ![p].merchant_id = req[p].merchant_id,
                 ![p].nextVersion =
                    MaxVersion({ r \in loyalty_rules_versions \cup
                                       tx[p].loyalty_rules_versions :
                                    r.merchant_id = req[p].merchant_id }) + 1]
   /\ pc' = [pc EXCEPT ![p] = "rul_insert"]
   /\ UNCHANGED << db, tx, row_lock, now, req, session_rows, resp, prior, aborted >>

RuleRow(p) ==
   [ id |-> RuleId(p), merchant_id |-> loc[p].merchant_id,
     version |-> loc[p].nextVersion,
     points_per_dollar |-> req[p].points_per_dollar,
     rounding |-> req[p].rounding,
     promo_multiplier |-> req[p].promo_multiplier,
     active_from |-> req[p].active_from ]

\* a unique index that does not make an insert wait for a transaction in
\* progress
VersionNeverHeld(p, m, v) == FALSE

\* a transaction in progress holds a row under the same (merchant, version)
VersionHeldByOther(p, m, v) ==
   \E q \in Procs \ {p} :
      RuleKeyRows(tx[q].loyalty_rules_versions, m, v) # {}

\* the table without loyalty_rules_versions_merchant_version_uq
VersionNeverTaken(m, v) == FALSE

\* a committed row holds the same (merchant, version)
VersionTaken(m, v) == RuleKeyRows(loyalty_rules_versions, m, v) # {}

\* INSERT INTO loyalty_rules_versions ... RETURNING id, under
\* loyalty_rules_versions_merchant_version_uq: the insert waits for a
\* transaction in progress that holds the same (merchant, version) and
\* fails when a committed row holds it
RulesInsert(p) ==
   /\ pc[p] = "rul_insert"
   /\ ~ VersionHeldByOther(p, loc[p].merchant_id, loc[p].nextVersion)
   /\ IF VersionTaken(loc[p].merchant_id, loc[p].nextVersion)
      THEN Rollback(p, "INTERNAL_SERVER_ERROR")
      ELSE /\ tx' = [tx EXCEPT ![p].loyalty_rules_versions = @ \cup {RuleRow(p)}]
           /\ pc' = [pc EXCEPT ![p] = "rul_audit"]
           /\ UNCHANGED << db, row_lock, now, req, session_rows, loc, resp, prior, aborted >>

RulesAudit(p) ==
   /\ pc[p] = "rul_audit"
   /\ logAudit(p, AuditRow(p, "rules_version_created",
                           "loyalty_rules_versions", RuleId(p)), "rul_commit")

RulesCommit(p) ==
   /\ pc[p] = "rul_commit"
   /\ Commit(p, [ NoReply EXCEPT !.code = "OK",
                                 !.version = loc[p].nextVersion ])

\* --------------------------------------------------- POST /tokens/revoke
\* SELECT id, merchant_id FROM customer_tokens WHERE public_token = $1
RevokeLookup(p) ==
   /\ req[p].op = "revoke"
   /\ MayStart(p)
   /\ LET found == { t \in TokenRows : t.public_token = req[p].public_token }
      IN  IF found = {}
          THEN Reject(p, "NOT_FOUND")
          ELSE LET token == CHOOSE t \in found : TRUE
               IN  /\ loc' = [loc EXCEPT ![p].merchant_id = token.merchant_id,
                                         ![p].token_id = token.public_token]
                   /\ pc' = [pc EXCEPT ![p] = "rev_update"]
                   /\ UNCHANGED << db, tx, row_lock, now, req, session_rows, resp, prior, aborted >>

\* UPDATE customer_tokens SET status = 'revoked' ... (pool.query: autocommit)
RevokeUpdate(p) ==
   /\ pc[p] = "rev_update"
   /\ token_status' = [token_status EXCEPT ![loc[p].token_id] = "revoked"]
   /\ pc' = [pc EXCEPT ![p] = "rev_audit"]
   /\ UNCHANGED << ledger_entries, redemptions, audit_logs,
                   loyalty_rules_versions, tx, row_lock, now, req, session_rows, loc, resp,
                   prior, aborted >>

\* logAudit on the pool (autocommit), then return { revoked: true }
RevokeAudit(p) ==
   /\ pc[p] = "rev_audit"
   /\ audit_logs' = audit_logs \cup
         { AuditRow(p, "token_revoked", "customer_token", loc[p].token_id) }
   /\ pc' = [pc EXCEPT ![p] = "done"]
   /\ loc' = [loc EXCEPT ![p] = NoLocals]
   /\ resp' = [resp EXCEPT ![p] = Reply("OK")]
   /\ UNCHANGED << ledger_entries, redemptions, loyalty_rules_versions,
                   token_status, tx, row_lock, now, req, session_rows, prior, aborted >>

\* -------------------------------------------------- the balance readers
\* GET /customers/:id/balance: one pool.query under the staff's merchant
GetBalance(p) ==
   /\ req[p].op = "balance"
   /\ MayStart(p)
   /\ pc' = [pc EXCEPT ![p] = "done"]
   /\ resp' = [resp EXCEPT ![p] =
                 [ NoReply EXCEPT
                      !.code = "OK",
                      !.balance = BalanceOf(ledger_entries, req[p].merchant_id,
                                            req[p].customer_id) ]]
   /\ UNCHANGED << db, tx, row_lock, now, req, session_rows, loc, prior, aborted >>

\* ------------------------------------------ GET /customers/:id/ledger
LedgerLimit == 100

\* Row o comes before row e in the result: it is newer, or it has the same
\* created_at and the scan delivers it first (the order of rows with equal
\* created_at is not fixed by the query: by id upwards or downwards here).
ComesBefore(o, e, scan) ==
   \/ o.created_at > e.created_at
   \/ /\ o.created_at = e.created_at
      /\ IF scan = "up" THEN o.id[2] < e.id[2] ELSE o.id[2] > e.id[2]

\* the query with ORDER BY created_at ASC
ledgerQueryOldestFirst(rows, m, c, scan) ==
   LET match == { e \in rows : e.merchant_id = m /\ e.customer_id = c }
       rank  == [ e \in match |->
                    Cardinality({ o \in match : ComesBefore(e, o, scan) }) ]
       n     == IF Cardinality(match) < LedgerLimit THEN Cardinality(match)
                ELSE LedgerLimit
   IN  [ i \in 1 .. n |->
            LET e == CHOOSE x \in match : rank[x] = i - 1
            IN  [ id |-> e.id, type |-> e.type,
                  points_delta |-> e.points_delta, source |-> e.source,
                  created_at |-> e.created_at ] ]

\* SELECT id, type, points_delta, source, created_at FROM ledger_entries
\*  WHERE merchant_id = $1 AND customer_id = $2
\*  ORDER BY created_at DESC LIMIT 100
ledgerQuery(rows, m, c, scan) ==
   LET match == { e \in rows : e.merchant_id = m /\ e.customer_id = c }
       rank  == [ e \in match |->
                    Cardinality({ o \in match : ComesBefore(o, e, scan) }) ]
       n     == IF Cardinality(match) < LedgerLimit THEN Cardinality(match)
                ELSE LedgerLimit
   IN  [ i \in 1 .. n |->
            LET e == CHOOSE x \in match : rank[x] = i - 1
            IN  [ id |-> e.id, type |-> e.type,
                  points_delta |-> e.points_delta, source |-> e.source,
                  created_at |-> e.created_at ] ]

\* the handler: one pool.query under the staff's merchant, entries: rows
ListLedger(p) ==
   /\ req[p].op = "ledger"
   /\ MayStart(p)
   /\ \E scan \in {"up", "down"} :
         resp' = [resp EXCEPT ![p] =
                    [ NoReply EXCEPT
                         !.code = "OK",
                         !.entries = ledgerQuery(ledger_entries,
                                                 req[p].merchant_id,
                                                 req[p].customer_id, scan) ]]
   /\ pc' = [pc EXCEPT ![p] = "done"]
   /\ UNCHANGED << db, tx, row_lock, now, req, session_rows, loc, prior, aborted >>

\* the balance query of POST /tokens/resolve and GET /public/card/:token,
\* sent on the pool, and the reply
PoolBalance(p) ==
   /\ resp' = [resp EXCEPT ![p] =
                 [ NoReply EXCEPT
                      !.code = "OK",
                      !.balance = BalanceOf(ledger_entries, loc[p].merchant_id,
                                            loc[p].customer_id) ]]
   /\ pc' = [pc EXCEPT ![p] = "done"]
   /\ loc' = [loc EXCEPT ![p] = NoLocals]
   /\ UNCHANGED << db, tx, row_lock, now, req, session_rows, prior, aborted >>

\* POST /tokens/resolve
ResolveTokenLookup(p) ==
   /\ req[p].op = "resolve"
   /\ TokenLookup(p, "res_balance")

ResolveBalance(p) ==
   /\ pc[p] = "res_balance"
   /\ PoolBalance(p)

\* GET /public/card/:publicToken
CardTokenLookup(p) ==
   /\ req[p].op = "card"
   /\ TokenLookup(p, "card_balance")

CardBalance(p) ==
   /\ pc[p] = "card_balance"
   /\ PoolBalance(p)

\* ------------------------------------------- POST /public/session/init
CustomerId(p) == "cu" \o ToString(p)
\* generatePublicToken(): 18 random bytes, distinct for every call
generatePublicToken(p) == "tk" \o ToString(p)

\* SELECT customer_id FROM customer_devices WHERE merchant_id AND device_id
DevicesOf(rows, m, d) ==
   { r \in rows : r.merchant_id = m /\ r.device_id = d }

\* SELECT public_token FROM customer_tokens WHERE merchant_id AND
\* customer_id AND status = 'active'
ActiveTokensOf(m, c) ==
   { r.public_token : r \in
        { t \in TokenRows : /\ t.merchant_id = m
                            /\ t.customer_id = c
                            /\ token_status[t.public_token] = "active" }
        \cup { t \in session_rows.customer_tokens :
                  t.merchant_id = m /\ t.customer_id = c } }

\* SELECT id, name, slug FROM merchants WHERE slug = $1 (the slug of a
\* merchant is its id here); 404 when there is none
SessionMerchant(p) ==
   /\ req[p].op = "session"
   /\ MayStart(p)
   /\ IF req[p].merchant_slug \notin merchants
      THEN Reject(p, "NOT_FOUND")
      ELSE /\ loc' = [loc EXCEPT ![p].merchant_id = req[p].merchant_slug]
           /\ pc' = [pc EXCEPT ![p] = "ses_device"]
           /\ UNCHANGED << db, tx, row_lock, now, req, session_rows, resp,
                           prior, aborted >>

\* the device lookup on the pool: it sees committed rows only
SessionDevice(p) ==
   /\ pc[p] = "ses_device"
   /\ LET found == DevicesOf(session_rows.customer_devices,
                             loc[p].merchant_id, req[p].device_id)
      IN  IF found # {}
          THEN /\ loc' = [loc EXCEPT ![p].customer_id =
                            (CHOOSE r \in found : TRUE).customer_id]
               /\ pc' = [pc EXCEPT ![p] = "ses_seen"]
          ELSE /\ pc' = [pc EXCEPT ![p] = "ses_customer"]
               /\ loc' = loc
   /\ UNCHANGED << db, tx, row_lock, now, req, session_rows, resp, prior,
                   aborted >>

\* UPDATE customer_devices SET last_seen_at = now(): no column that the
\* handlers read changes
SessionSeen(p) ==
   /\ pc[p] = "ses_seen"
   /\ pc' = [pc EXCEPT ![p] = "ses_token"]
   /\ UNCHANGED << db, tx, row_lock, now, req, session_rows, loc, resp, prior,
                   aborted >>

\* the active token of the bound customer, or 404 "Active token not found"
SessionToken(p) ==
   /\ pc[p] = "ses_token"
   /\ LET found == ActiveTokensOf(loc[p].merchant_id, loc[p].customer_id)
      IN  IF found = {}
          THEN Reject(p, "NOT_FOUND")
          ELSE /\ pc' = [pc EXCEPT ![p] = "done"]
               /\ loc' = [loc EXCEPT ![p] = NoLocals]
               /\ resp' = [resp EXCEPT ![p] =
                             [ Reply("OK") EXCEPT
                                  !.public_token = CHOOSE t \in found : TRUE ]]
               /\ UNCHANGED << db, tx, row_lock, now, req, session_rows,
                               prior, aborted >>

\* BEGIN; INSERT INTO customers ... RETURNING id
SessionCustomer(p) ==
   /\ pc[p] = "ses_customer"
   /\ tx' = [tx EXCEPT ![p].customers =
                { [ id |-> CustomerId(p),
                    merchant_id |-> loc[p].merchant_id ] }]
   /\ loc' = [loc EXCEPT ![p].customer_id = CustomerId(p)]
   /\ pc' = [pc EXCEPT ![p] = "ses_newtoken"]
   /\ UNCHANGED << db, row_lock, now, req, session_rows, resp, prior,
                   aborted >>

\* INSERT INTO customer_tokens (..., public_token, status) VALUES (..., 'active')
SessionNewToken(p) ==
   /\ pc[p] = "ses_newtoken"
   /\ tx' = [tx EXCEPT ![p].customer_tokens =
                { [ merchant_id |-> loc[p].merchant_id,
                    customer_id |-> loc[p].customer_id,
                    public_token |-> generatePublicToken(p) ] }]
   /\ pc' = [pc EXCEPT ![p] = "ses_bind"]
   /\ UNCHANGED << db, row_lock, now, req, session_rows, loc, resp, prior,
                   aborted >>

\* INSERT INTO customer_devices: the unique index on (merchant_id, device_id)
\* makes the statement wait while another transaction holds an uncommitted
\* row for the pair, and fail once a committed row holds it; the catch
\* block then rolls back and the error handler answers 500
SessionBind(p) ==
   /\ pc[p] = "ses_bind"
   /\ \A q \in Procs \ {p} :
         DevicesOf(tx[q].customer_devices, loc[p].merchant_id,
                   req[p].device_id) = {}
   /\ IF DevicesOf(session_rows.customer_devices, loc[p].merchant_id,
                   req[p].device_id) # {}
      THEN Rollback(p, "INTERNAL_SERVER_ERROR")
      ELSE /\ tx' = [tx EXCEPT ![p].customer_devices =
                        { [ merchant_id |-> loc[p].merchant_id,
                            device_id |-> req[p].device_id,
                            customer_id |-> loc[p].customer_id ] }]
           /\ pc' = [pc EXCEPT ![p] = "ses_commit"]
           /\ UNCHANGED << db, row_lock, now, req, session_rows, loc, resp,
                           prior, aborted >>

\* COMMIT, then return the new token
SessionCommit(p) ==
   /\ pc[p] = "ses_commit"
   /\ session_rows' =
         [ customers |->
              Committed(session_rows.customers, tx[p].customers),
           customer_tokens |->
              Committed(session_rows.customer_tokens, tx[p].customer_tokens),
           customer_devices |->
              Committed(session_rows.customer_devices,
                        tx[p].customer_devices) ]
   /\ tx' = [tx EXCEPT ![p] = EmptyTx]
   /\ pc' = [pc EXCEPT ![p] = "done"]
   /\ loc' = [loc EXCEPT ![p] = NoLocals]
   /\ resp' = [resp EXCEPT ![p] =
                 [ Reply("OK") EXCEPT
                      !.public_token = generatePublicToken(p) ]]
   /\ UNCHANGED << db, row_lock, now, req, prior, aborted >>

\* ------------------------------------------------- a statement that fails
\* Any statement sent on the transaction's client may be rejected by the
\* store (statement timeout, lost connection, constraint violation); the
\* handler's catch block rolls back and rethrows.
InTransaction ==
   { "earn_insert", "earn_existing", "earn_balance", "earn_commit",
     "adj_insert", "adj_existing", "adj_audit", "adj_balance", "adj_commit",
     "rdm_lock", "rdm_reward", "rdm_balance", "rdm_insert", "rdm_existing",
     "rdm_redemption", "rdm_audit", "rdm_newbalance", "rdm_commit",
     "rul_insert", "rul_audit", "rul_commit" }

DbError(p) ==
   /\ pc[p] \in InTransaction
   /\ Rollback(p, "INTERNAL_SERVER_ERROR")

\* ---------------------------------------------------------------- requests
EarnReq(t, k, a) ==
   [ NoRequest EXCEPT !.op = "earn", !.public_token = t,
                      !.idempotency_key = k, !.amount = a ]

AdjustReq(t, k, d) ==
   [ NoRequest EXCEPT !.op = "adjust", !.public_token = t,
                      !.idempotency_key = k, !.points_delta = d ]

RedeemReq(t, k, r) ==
   [ NoRequest EXCEPT !.op = "redeem", !.public_token = t,
                      !.idempotency_key = k, !.reward_id = r ]

RevokeReq(t) == [ NoRequest EXCEPT !.op = "revoke", !.public_token = t ]

SessionReq(slug, d) ==
   [ NoRequest EXCEPT !.op = "session", !.merchant_slug = slug,
                      !.device_id = d ]

ListReq(m, c) ==
   [ NoRequest EXCEPT !.op = "ledger", !.merchant_id = m,
                      !.customer_id = c ]

BalanceReq(m, c) ==
   [ NoRequest EXCEPT !.op = "balance", !.merchant_id = m,
                      !.customer_id = c ]

ResolveReq(t) == [ NoRequest EXCEPT !.op = "resolve", !.public_token = t ]

CardReq(t) == [ NoRequest EXCEPT !.op = "card", !.public_token = t ]

RulesReq(m, ppd, rounding, mult, from) ==
   [ NoRequest EXCEPT !.op = "rules", !.merchant_id = m,
                      !.points_per_dollar = ppd, !.rounding = rounding,
                      !.promo_multiplier = mult, !.active_from = from ]

Keys == {"k1", "k2"}

LedgerRequests ==
   { EarnReq(t, k, 500) : t \in {"t1", "t3"}, k \in Keys } \cup
   { AdjustReq(t, k, 0 - 50) : t \in {"t1", "t2"}, k \in Keys } \cup
   { RedeemReq("t1", k, "r1") : k \in Keys }

AllRequests ==
   LedgerRequests \cup
   { RevokeReq("t1"), RulesReq("m1", 2000, "nearest", 150, 1) }

\* ------------------------------------------------------------ first state
\* the rule version every merchant of the integration tests starts with:
\* 10 points per dollar, floor, multiplier 1, active since yesterday
SeedRules ==
   { [ id |-> << "rv", 0 >>, merchant_id |-> "m1", version |-> 1,
       points_per_dollar |-> 1000, rounding |-> "floor",
       promo_multiplier |-> 100, active_from |-> 0 ] }

\* customer c1 after one earn of `points` points under key k0
SeedLedger(points) ==
   IF points = 0 THEN {}
   ELSE { LedgerRow(<< "le", 0 >>, "m1", "c1", "earn", points, "terminal",
                    NULL, << "rv", 0 >>, "k0", 0) }

InitWith(requests, n, seeds) ==
   /\ \E points \in seeds : ledger_entries = SeedLedger(points)
   /\ redemptions = {}
   /\ audit_logs = {}
   /\ loyalty_rules_versions = SeedRules
   /\ token_status = [ t \in PublicTokens |-> "active" ]
   /\ tx = [ p \in Procs |-> EmptyTx ]
   /\ row_lock = [ c \in CustomerIds |-> {} ]
   /\ now = 1
   /\ session_rows = SeedSessions
   /\ req \in [ Procs -> requests \cup {NoRequest} ]
   /\ \A p \in Procs : (p <= n) <=> (req[p] # NoRequest)
   /\ pc = [ p \in Procs |-> "idle" ]
   /\ loc = [ p \in Procs |-> NoLocals ]
   /\ resp = [ p \in Procs |-> NoReply ]
   /\ prior = [ p \in Procs |-> NULL ]
   /\ aborted = [ p \in Procs |-> "" ]

\* ------------------------------------------------------- specifications
EarnStep(p) ==
   \/ EarnTokenLookup(p) \/ EarnRulesLookup(p) \/ EarnInsert(p)
   \/ EarnExisting(p) \/ EarnBalance(p) \/ EarnCommit(p)

AdjustStep(p) ==
   \/ AdjustTokenLookup(p) \/ AdjustInsert(p) \/ AdjustExisting(p)
   \/ AdjustAudit(p) \/ AdjustBalance(p) \/ AdjustCommit(p)

RedeemFreshStep(p) ==
   \/ RedeemTokenLookup(p) \/ RedeemLock(p) \/ RedeemReward(p)
   \/ RedeemBalance(p) \/ RedeemInsert(p) \/ RedeemRedemption(p)
   \/ RedeemAudit(p) \/ RedeemNewBalance(p) \/ RedeemCommit(p)

RedeemStep(p) == RedeemFreshStep(p) \/ RedeemExisting(p)

RulesStep(p) ==
   \/ RulesMaxVersion(p) \/ RulesInsert(p) \/ RulesAudit(p) \/ RulesCommit(p)

RevokeStep(p) == RevokeLookup(p) \/ RevokeUpdate(p) \/ RevokeAudit(p)

\* every handler, with statements that may fail
Init == InitWith(AllRequests, MaxRequests, {0, 50})

Next ==
   \E p \in Procs :
      \/ EarnStep(p) \/ AdjustStep(p) \/ RedeemStep(p)
      \/ RulesStep(p) \/ RevokeStep(p) \/ DbError(p)

Spec == Init /\ [][Next]_vars

\* earn, adjust and redeem on a store that rejects no statement
InitLedger == InitWith(LedgerRequests, MaxRequests, {0, 50, 100})

NextLedger == \E p \in Procs : EarnStep(p) \/ AdjustStep(p) \/ RedeemStep(p)

SpecLedger == InitLedger /\ [][NextLedger]_vars

\* concurrent redeems of customer c1 under distinct idempotency keys, and
\* no other request
RedeemKey(p) == "rk" \o ToString(p)

InitRedeems ==
   /\ InitWith({ RedeemReq("t1", RedeemKey(p), r) :
                    p \in Procs, r \in {"r1", "r2"} },
               MaxRedeems, {0, 50, 100})
   /\ \A p \in Procs : p <= MaxRedeems => req[p].idempotency_key = RedeemKey(p)

NextRedeems == \E p \in Procs : RedeemFreshStep(p)

SpecRedeems == InitRedeems /\ [][NextRedeems]_vars

\* concurrent earns of customer c1 that all carry the key k1
InitEarns == InitWith({ EarnReq("t1", "k1", a) : a \in {500, 1299} },
                      MaxEarns, {0, 50})

NextEarns == \E p \in Procs : EarnStep(p)

SpecEarnSameKey == InitEarns /\ [][NextEarns]_vars

\* the write path of customer c1 next to every reader of a balance
ReadRequests ==
   { BalanceReq(m, c) : m \in merchants, c \in {"c1", "c2"} } \cup
   { ResolveReq("t1"), CardReq("t1"), CardReq("t2") }

WriteRequests ==
   { EarnReq("t1", "k1", 500), AdjustReq("t1", "k1", 0 - 50),
     AdjustReq("t1", "k2", 30), RedeemReq("t1", "k2", "r1") }

ReadStep(p) ==
   \/ GetBalance(p) \/ ResolveTokenLookup(p) \/ ResolveBalance(p)
   \/ CardTokenLookup(p) \/ CardBalance(p)

InitReads == InitWith(ReadRequests \cup WriteRequests, MaxRequests, {0, 50})

NextReads ==
   \E p \in Procs :
      EarnStep(p) \/ AdjustStep(p) \/ RedeemStep(p) \/ ReadStep(p)

SpecReads == InitReads /\ [][NextReads]_vars

\* a call, its replays under the same key, and other writes of the same
\* customer between them
ReplayRequests ==
   { EarnReq("t1", "k1", 500), AdjustReq("t1", "k1", 30),
     RedeemReq("t1", "k1", "r1"), AdjustReq("t1", "k2", 20) }

InitReplay == InitWith(ReplayRequests, MaxCalls, {50, 100})

SpecReplay == InitReplay /\ [][NextLedger]_vars

\* redeems of customer c1 naming an active reward of its merchant, an
\* inactive one, one of another merchant and one that does not exist
RewardRequests ==
   { RedeemReq("t1", k, r) : k \in Keys, r \in {"r1", "r3", "r4", "r0"} }

InitRewards == InitWith(RewardRequests, MaxRequests, {0, 50, 100})

NextRewards == \E p \in Procs : RedeemStep(p)

SpecRewards == InitRewards /\ [][NextRewards]_vars

\* time passes: now() of a later statement is later
Tick ==
   /\ now < MaxNow
   /\ now' = now + 1
   /\ UNCHANGED << db, tx, row_lock, req, session_rows, pc, loc, resp, prior, aborted >>

\* earns of merchants m1 and m2 next to rule creations that take effect
\* at once (active_from 1) or later (active_from 3)
RuleRequests ==
   { EarnReq("t1", "k1", 1299), EarnReq("t3", "k2", 1299) } \cup
   { RulesReq(m, 2000, "nearest", 150, from) :
        m \in merchants, from \in {1, 3} }

\* rule versions that exist before the requests: m1 has version 1, and
\* possibly a version 2 that takes effect at 2; m2 has none
RuleSeeds ==
   { SeedRules,
     SeedRules \cup
        { [ id |-> << "rv", 0 - 1 >>, merchant_id |-> "m1", version |-> 2,
            points_per_dollar |-> 500, rounding |-> "nearest",
            promo_multiplier |-> 100, active_from |-> 2 ] } }

InitRules ==
   /\ ledger_entries = SeedLedger(50)
   /\ redemptions = {}
   /\ audit_logs = {}
   /\ loyalty_rules_versions \in RuleSeeds
   /\ token_status = [ t \in PublicTokens |-> "active" ]
   /\ tx = [ p \in Procs |-> EmptyTx ]
   /\ row_lock = [ c \in CustomerIds |-> {} ]
   /\ now = 1
   /\ session_rows = SeedSessions
   /\ req \in [ Procs -> RuleRequests \cup {NoRequest} ]
   /\ \A p \in Procs : (p <= MaxRequests) <=> (req[p] # NoRequest)
   /\ pc = [ p \in Procs |-> "idle" ]
   /\ loc = [ p \in Procs |-> NoLocals ]
   /\ resp = [ p \in Procs |-> NoReply ]
   /\ prior = [ p \in Procs |-> NULL ]
   /\ aborted = [ p \in Procs |-> "" ]

NextRules ==
   \/ \E p \in Procs : EarnStep(p) \/ RulesStep(p)
   \/ Tick

SpecRules == InitRules /\ [][NextRules]_vars

\* earns of customer c1 for a range of amounts (in hundredths) under every
\* rule of a range of points per unit, multipliers and rounding modes

PointRules ==
   { [ id |-> << "rv", 0 >>, merchant_id |-> "m1", version |-> 1,
       points_per_dollar |-> ppd, rounding |-> rounding,
       promo_multiplier |-> mult, active_from |-> 0 ] :
        ppd \in {100, 1000, 10000}, mult \in {100, 150},
        rounding \in {"floor", "nearest"} }

InitPoints ==
   /\ ledger_entries = {}
   /\ redemptions = {}
   /\ audit_logs = {}
   /\ \E rule \in PointRules : loyalty_rules_versions = {rule}
   /\ token_status = [ t \in PublicTokens |-> "active" ]
   /\ tx = [ p \in Procs |-> EmptyTx ]
   /\ row_lock = [ c \in CustomerIds |-> {} ]
   /\ now = 1
   /\ session_rows = SeedSessions
   /\ req \in [ Procs -> { EarnReq("t1", k, a) : k \in Keys, a \in Amounts }
                            \cup {NoRequest} ]
   /\ \A p \in Procs : (p <= MaxRequests) <=> (req[p] # NoRequest)
   /\ req[1].idempotency_key = "k1"
   /\ pc = [ p \in Procs |-> "idle" ]
   /\ loc = [ p \in Procs |-> NoLocals ]
   /\ resp = [ p \in Procs |-> NoReply ]
   /\ prior = [ p \in Procs |-> NULL ]
   /\ aborted = [ p \in Procs |-> "" ]

SpecPoints == InitPoints /\ [][NextEarns]_vars

\* redeems and rule creations, the two writers of an audit record inside
\* their transaction, with statements that may fail
AuditRequests ==
   { RedeemReq("t1", k, "r1") : k \in Keys } \cup
   { RulesReq("m1", 2000, "nearest", 150, 1) }

InitAudit == InitWith(AuditRequests, MaxRequests, {50, 100})

NextAudit == \E p \in Procs : RedeemStep(p) \/ RulesStep(p) \/ DbError(p)

SpecAudit == InitAudit /\ [][NextAudit]_vars

\* The write path under fair scheduling: the event loop resumes every
\* handler whose awaited statement can complete, and the store completes a
\* statement that is not waiting for a lock.  Statements may fail.
LiveRequests ==
   { RedeemReq("t1", k, "r1") : k \in Keys } \cup
   { EarnReq("t1", k, 500) : k \in Keys } \cup
   { AdjustReq("t2", k, 0 - 50) : k \in Keys }

InitLive == InitWith(LiveRequests, MaxRequests, {50, 100})

LedgerStep(p) == EarnStep(p) \/ AdjustStep(p) \/ RedeemStep(p)

NextLive == \E p \in Procs : LedgerStep(p) \/ DbError(p)

SpecLive ==
   /\ InitLive
   /\ [][NextLive]_vars
   /\ \A p \in Procs : WF_vars(LedgerStep(p))

\* The write path on a store that loses committed ledger entries.  Nothing in
\* the repository deletes one and the triggers refuse row deletes; an entry
\* can only go missing through a session that bypasses them.  This is the
\* inconsistency the handlers' check after the replay lookup is written for.
LedgerEntryLost ==
   /\ \E e \in ledger_entries : ledger_entries' = ledger_entries \ {e}
   /\ UNCHANGED << redemptions, audit_logs, loyalty_rules_versions,
                   token_status, tx, row_lock, now, req, session_rows, pc, loc, resp,
                   prior, aborted >>

ConflictRequests ==
   { EarnReq("t1", k, 500) : k \in Keys } \cup
   { AdjustReq("t1", k, 0 - 50) : k \in Keys } \cup
   { RedeemReq("t1", k, "r1") : k \in Keys }

InitConflict == InitWith(ConflictRequests, MaxRequests, {50, 100})

NextConflict ==
   \/ \E p \in Procs : LedgerStep(p)
   \/ LedgerEntryLost

SpecConflict == InitConflict /\ [][NextConflict]_vars

\* earn, adjust and redeem with well-formed and malformed bodies: amounts
\* that are not positive, a key and a token that are too short, a reward id
\* that is not a UUID
InputRequests ==
   { EarnReq(t, k, a) : t \in {"t1", "tok"}, k \in {"k1", "key"},
                        a \in {0 - 100, 0, 500} } \cup
   { AdjustReq(t, k, 0 - 50) : t \in {"t1", "tok"}, k \in {"k1", "key"} } \cup
   { RedeemReq(t, k, r) : t \in {"t1", "tok"}, k \in {"k1", "key"},
                          r \in {"r1", "rwd"} }

InitInputs == InitWith(InputRequests, MaxRequests, {50})

NextInputs == \E p \in Procs : LedgerStep(p)

SpecInputs == InitInputs /\ [][NextInputs]_vars

\* earn, adjust and redeem with the token of customer c1 and with a token
\* that no row holds, next to the revocation of the token of c1
TokenRequests ==
   { EarnReq(t, "k1", 500) : t \in {"t1", "t9"} } \cup
   { AdjustReq(t, "k1", 0 - 50) : t \in {"t1", "t9"} } \cup
   { RedeemReq(t, "k1", "r1") : t \in {"t1", "t9"} } \cup
   { RevokeReq("t1") }

InitTokens == InitWith(TokenRequests, MaxRequests, {50, 100})

NextTokens == \E p \in Procs : LedgerStep(p) \/ RevokeStep(p)

SpecTokens == InitTokens /\ [][NextTokens]_vars

\* The staff routes from the arrival of the request: every route that writes,
\* called without a header, with a token that does not verify, with a
\* payload without sub, and as the owner, the manager, the cashier, the
\* disabled owner and an unknown staff user of merchant m1.
Headers ==
   { NoHeader, BadToken, Bearer("", "m1") } \cup
   { Bearer(u, "m1") : u \in {"s1", "s3", "s4", "s5", "s9"} }

StaffRequests ==
   { [ r EXCEPT !.authorization = h ] :
        r \in { EarnReq("t1", "k1", 500), AdjustReq("t1", "k1", 0 - 50),
                RedeemReq("t1", "k1", "r1"), RevokeReq("t1"),
                RulesReq("m1", 2000, "nearest", 150, 1) },
        h \in Headers }

InitRoles ==
   /\ ledger_entries = SeedLedger(100)
   /\ redemptions = {}
   /\ audit_logs = {}
   /\ loyalty_rules_versions = SeedRules
   /\ token_status = [ t \in PublicTokens |-> "active" ]
   /\ tx = [ p \in Procs |-> EmptyTx ]
   /\ row_lock = [ c \in CustomerIds |-> {} ]
   /\ now = 1
   /\ session_rows = SeedSessions
   /\ req \in [ Procs -> StaffRequests \cup {NoRequest} ]
   /\ \A p \in Procs : (p <= MaxRequests) <=> (req[p] # NoRequest)
   /\ pc = [ p \in Procs |-> IF p <= MaxRequests THEN "arrived" ELSE "idle" ]
   /\ loc = [ p \in Procs |-> NoLocals ]
   /\ resp = [ p \in Procs |-> NoReply ]
   /\ prior = [ p \in Procs |-> NULL ]
   /\ aborted = [ p \in Procs |-> "" ]

NextRoles ==
   \E p \in Procs :
      \/ staffAuth(p) \/ requireRole(p)
      \/ LedgerStep(p) \/ RulesStep(p) \/ RevokeStep(p)

SpecRoles == InitRoles /\ [][NextRoles]_vars

\* The ledger listing over stored ledgers of customer c1 that are empty,
\* short, and as long as and longer than the limit of the query, with
\* creation times that are all different or equal in pairs, next to entries
\* of the other customers.
ListSizes == {0, 3, LedgerLimit, LedgerLimit + 3}

\* the creation time of the i-th entry: one per entry, or one per two
CreatedAt(i, paired) == IF paired THEN (i + 1) \div 2 ELSE i

LedgerOf(n, paired) ==
   { LedgerRow(<< "le", 0 - i >>, "m1", "c1", "earn", 50, "terminal", NULL,
               << "rv", 0 >>, "k" \o ToString(i), CreatedAt(i, paired)) :
        i \in 1 .. n } \cup
   { LedgerRow(<< "le", 0 - 1000 >>, "m1", "c2", "adjust", 30, "admin", NULL,
               NULL, "kc2", 2),
     LedgerRow(<< "le", 0 - 1001 >>, "m2", "c3", "earn", 50, "terminal", NULL,
               NULL, "kc3", 2) }

ListRequests ==
   { ListReq("m1", "c1"), ListReq("m1", "c2"), ListReq("m2", "c3"),
     ListReq("m2", "c1") }

InitList ==
   /\ \E n \in ListSizes, paired \in BOOLEAN :
         ledger_entries = LedgerOf(n, paired)
   /\ redemptions = {}
   /\ audit_logs = {}
   /\ loyalty_rules_versions = SeedRules
   /\ token_status = [ t \in PublicTokens |-> "active" ]
   /\ tx = [ p \in Procs |-> EmptyTx ]
   /\ row_lock = [ c \in CustomerIds |-> {} ]
   /\ now = 1
   /\ session_rows = SeedSessions
   /\ req \in [ Procs -> ListRequests \cup {NoRequest} ]
   /\ \A p \in Procs : (p <= MaxRequests) <=> (req[p] # NoRequest)
   /\ pc = [ p \in Procs |-> "idle" ]
   /\ loc = [ p \in Procs |-> NoLocals ]
   /\ resp = [ p \in Procs |-> NoReply ]
   /\ prior = [ p \in Procs |-> NULL ]
   /\ aborted = [ p \in Procs |-> "" ]

NextList == \E p \in Procs : ListLedger(p)

SpecList == InitList /\ [][NextList]_vars

\* ---- device sessions: session inits for a bound and for a new device,
\* and the revocation of the bound customer's token
SessionRequests ==
   { SessionReq(slug, d) : slug \in {"m1", "m2", "mx"}, d \in {"d1", "d2"} }
      \cup { RevokeReq("t1") }

SessionStep(p) ==
   \/ SessionMerchant(p) \/ SessionDevice(p) \/ SessionSeen(p)
   \/ SessionToken(p) \/ SessionCustomer(p) \/ SessionNewToken(p)
   \/ SessionBind(p) \/ SessionCommit(p)

InitSessions == InitWith(SessionRequests, MaxCalls, {0})

NextSessions == \E p \in Procs : SessionStep(p) \/ RevokeStep(p)

SpecSessions == InitSessions /\ [][NextSessions]_vars

\* ---- one operation at a time on every customer: a request takes a step
\* only while no other request that presents a token of the same customer
\* is between its first statement and its reply
SerialRequests ==
   { EarnReq("t1", k, a) : k \in Keys, a \in {500, 1299} } \cup
   { AdjustReq(t, k, 0 - 70) : t \in {"t1", "t2"}, k \in Keys } \cup
   { RedeemReq("t1", k, r) : k \in Keys, r \in {"r1", "r2"} }

InitSerial == InitWith(SerialRequests, MaxRequests, {0, 50})

CustomerOfToken(t) == { r.customer_id : r \in TokenOfAnyStatus(t) }

AloneOnCustomer(p) ==
   \A q \in Procs \ {p} :
      pc[q] \in {"idle", "done"}
         \/ CustomerOfToken(req[q].public_token)
               # CustomerOfToken(req[p].public_token)

NextSerial == \E p \in Procs : AloneOnCustomer(p) /\ LedgerStep(p)

SpecSerial == InitSerial /\ [][NextSerial]_vars

\* ---- two tenants: the owners of merchants m1 and m2 call earn, adjust and
\* redeem with a token of their own merchant and with a token of the other
TenantRequests ==
   { [ r EXCEPT !.authorization = h ] :
        r \in { EarnReq("t1", "k1", 500), AdjustReq("t1", "k1", 0 - 50),
                AdjustReq("t3", "k1", 0 - 50), RedeemReq("t1", "k1", "r1"),
                RedeemReq("t3", "k1", "r4") },
        h \in { Bearer("s1", "m1"), Bearer("s2", "m2") } }

InitTenants ==
   /\ ledger_entries = SeedLedger(100)
   /\ redemptions = {}
   /\ audit_logs = {}
   /\ loyalty_rules_versions = SeedRules
   /\ token_status = [ t \in PublicTokens |-> "active" ]
   /\ tx = [ p \in Procs |-> EmptyTx ]
   /\ row_lock = [ c \in CustomerIds |-> {} ]
   /\ now = 1
   /\ session_rows = SeedSessions
   /\ req \in [ Procs -> TenantRequests \cup {NoRequest} ]
   /\ \A p \in Procs : (p <= MaxRequests) <=> (req[p] # NoRequest)
   /\ pc = [ p \in Procs |-> IF p <= MaxRequests THEN "arrived" ELSE "idle" ]
   /\ loc = [ p \in Procs |-> NoLocals ]
   /\ resp = [ p \in Procs |-> NoReply ]
   /\ prior = [ p \in Procs |-> NULL ]
   /\ aborted = [ p \in Procs |-> "" ]

NextTenants ==
   \E p \in Procs : staffAuth(p) \/ requireRole(p) \/ LedgerStep(p)

SpecTenants == InitTenants /\ [][NextTenants]_vars

\* ---- earn and redeem only: customer c1 earns under key k1 and redeems
\* under k1 and under keys of their own
EarnRedeemRequests ==
   { EarnReq("t1", "k1", 500) } \cup
   { RedeemReq("t1", k, "r1") : k \in Keys \cup {"k3"} }

InitEarnRedeem == InitWith(EarnRedeemRequests, MaxRedeems, {0, 50})

NextEarnRedeem == \E p \in Procs : EarnStep(p) \/ RedeemStep(p)

SpecEarnRedeem == InitEarnRedeem /\ [][NextEarnRedeem]_vars

\* ==================================================================
\* Properties
\* ==================================================================
Done(p) == pc[p] = "done"
Ok(p) == Done(p) /\ resp[p].code = "OK"
Started(p) == pc[p] # "idle"
Failed(p, code) == Done(p) /\ resp[p].code = code

RewardCost(r) == (CHOOSE x \in rewards : x.id = r).points_cost

RECURSIVE SumCost(_)
SumCost(ps) ==
   IF ps = {} THEN 0
   ELSE LET p == CHOOSE x \in ps : TRUE
        IN  RewardCost(req[p].reward_id) + SumCost(ps \ {p})

\* the balance customer c1 starts with: the seeded earn under key k0
SeedBalance == BalanceOf(KeyRows(ledger_entries, "m1", "k0"), "m1", "c1")

Redeemers == { p \in Procs : req[p].op = "redeem" }

\* C1: with committed balance B and concurrent redeems under distinct
\* idempotency keys, and nothing else running for the customer, the reward
\* costs of the redeems that succeeded never add up to more than B, in every
\* interleaving; the redeem entries committed never take more than B.
C1_NoOverspend ==
   /\ SumCost({ p \in Redeemers : Ok(p) }) <= SeedBalance
   /\ 0 - SumDelta({ e \in ledger_entries : e.type = "redeem" }) <= SeedBalance

\* two redeems succeeded and a third was refused although the three costs
\* together exceed the balance
C1_Witness ==
   \E p, q, r \in Redeemers :
      /\ p # q /\ p # r /\ q # r
      /\ Ok(p) /\ Ok(q) /\ Failed(r, "INSUFFICIENT_POINTS")
      /\ SumCost({p, q, r}) > SeedBalance

\* what a serial execution of the redeems in `order` answers, starting
\* from balance `bal`
RECURSIVE SerialRedeems(_, _)
SerialRedeems(order, bal) ==
   IF order = << >> THEN << >>
   ELSE LET cost == RewardCost(req[Head(order)].reward_id)
        IN  IF bal < cost
            THEN << [code |-> "INSUFFICIENT_POINTS", balance |-> 0] >>
                    \o SerialRedeems(Tail(order), bal)
            ELSE << [code |-> "OK", balance |-> bal - cost] >>
                    \o SerialRedeems(Tail(order), bal - cost)

Orders(ps) ==
   { o \in [1 .. Cardinality(ps) -> ps] :
        \A i, j \in 1 .. Cardinality(ps) : o[i] = o[j] => i = j }

StartedRedeems == { p \in Redeemers : Started(p) }

\* C7: once the concurrent redeems (distinct keys, one customer) have all
\* answered, their answers are those of some serial execution of the same
\* requests and the ledger holds one redeem entry per success; with balance
\* 50 and redeems of the reward costing 50, exactly one succeeds with
\* balance 0, the others fail with INSUFFICIENT_POINTS and the ledger holds
\* exactly one redeem entry.
C7_SerialOutcome ==
   (\A p \in StartedRedeems : Done(p)) =>
      /\ \E o \in Orders(StartedRedeems) :
            LET run == SerialRedeems(o, SeedBalance)
            IN  \A i \in 1 .. Cardinality(StartedRedeems) :
                   /\ resp[o[i]].code = run[i].code
                   /\ resp[o[i]].balance = run[i].balance
      /\ Cardinality({ e \in ledger_entries : e.type = "redeem" }) =
            Cardinality({ p \in StartedRedeems : Ok(p) })
      /\ ( /\ SeedBalance = 50
           /\ Cardinality(StartedRedeems) >= 2
           /\ \A p \in StartedRedeems : req[p].reward_id = "r1" )
         => /\ Cardinality({ p \in StartedRedeems :
                                Ok(p) /\ resp[p].balance = 0 }) = 1
            /\ \A p \in StartedRedeems :
                  Ok(p) \/ Failed(p, "INSUFFICIENT_POINTS")
            /\ Cardinality({ e \in ledger_entries : e.type = "redeem" }) = 1

\* balance 50, two redeems of the 50-point reward have both answered, and
\* the loser had started before the winner committed
C7_Witness ==
   /\ SeedBalance = 50
   /\ \E p, q \in StartedRedeems :
         /\ p # q
         /\ req[p].reward_id = "r1" /\ req[q].reward_id = "r1"
         /\ Ok(p) /\ resp[p].balance = 0
         /\ Failed(q, "INSUFFICIENT_POINTS")
         /\ q < p

Earners == { p \in Procs : req[p].op = "earn" }

\* C5: of the concurrent earns that carry one idempotency key for one
\* customer, every one that has answered answered without error, exactly
\* one of them inserted the ledger entry and answered idempotent=false,
\* the others answered idempotent=true, and all of them returned the id of
\* that one entry and the same balance.
C5_ConcurrentSameKey ==
   LET answered == { p \in Earners : Done(p) }
       entries  == KeyRows(ledger_entries, "m1", "k1")
   IN  /\ \A p \in answered : Ok(p)
       /\ \A p, q \in answered :
             /\ resp[p].ledger_entry_id = resp[q].ledger_entry_id
             /\ resp[p].balance = resp[q].balance
       /\ answered # {} =>
             /\ Cardinality({ p \in answered : ~ resp[p].idempotent }) = 1
             /\ Cardinality(entries) = 1
             /\ \A p \in answered :
                   /\ { resp[p].ledger_entry_id } = { e.id : e \in entries }
                   /\ ~ resp[p].idempotent => resp[p].ledger_entry_id = LedgerId(p)
       /\ answered = {} => entries = {}

\* every earn has answered, and one answered as a replay although the entry
\* was not yet committed when it looked its token up: it ran concurrently
\* with the earn that inserted
C5_Witness ==
   /\ \A p \in Earners : Done(p)
   /\ Cardinality(Earners) >= 3
   /\ \E p \in Earners : resp[p].idempotent /\ prior[p] = NULL

TokenMerchant(t) == (CHOOSE r \in TokenRows : r.public_token = t).merchant_id
TokenCustomer(t) == (CHOOSE r \in TokenRows : r.public_token = t).customer_id

Ids(rows) == { r.id : r \in rows }

Appenders == { p \in Procs : req[p].op \in {"earn", "adjust"} }

\* C2: after any requests of earn or adjust under one key, the ledger holds
\* exactly one entry with that key; a request answers idempotent=false
\* exactly when the entry is the one it inserted; a request that arrives
\* after the entry was committed succeeds with idempotent=true and that
\* entry's id, inserts nothing, and the stored entry is unchanged.
C2_EarnAdjustIdempotent ==
   \A p \in Appenders :
      LET entries == KeyRows(ledger_entries, TokenMerchant(req[p].public_token),
                             req[p].idempotency_key)
      IN  /\ Ok(p) =>
                /\ Cardinality(entries) = 1
                /\ { resp[p].ledger_entry_id } = Ids(entries)
                /\ resp[p].idempotent <=> LedgerId(p) \notin Ids(ledger_entries)
                /\ ~ resp[p].idempotent => resp[p].ledger_entry_id = LedgerId(p)
          /\ (Done(p) /\ prior[p] # NULL) =>
                /\ Ok(p)
                /\ resp[p].idempotent
                /\ resp[p].ledger_entry_id = prior[p].id
                /\ prior[p] \in ledger_entries

\* an earn answered idempotent=false and a later earn of the same customer
\* under the same key answered as its replay
C2_Witness ==
   \E p, q \in Earners :
      /\ p # q
      /\ req[p].public_token = req[q].public_token
      /\ req[p].idempotency_key = req[q].idempotency_key
      /\ Ok(p) /\ ~ resp[p].idempotent
      /\ Ok(q) /\ resp[q].idempotent
      /\ prior[q] # NULL /\ prior[q].id = LedgerId(p)

\* C3: a redeem that arrives after a redeem of the same customer and reward
\* under the same key has committed succeeds with idempotent=true and the
\* first call's redemption_id, and writes no ledger entry, redemption or
\* audit record, whatever balance the first redeem left.
C3_RedeemReplayReturnsOriginal ==
   \A p \in Redeemers :
      ( /\ Done(p)
        /\ prior[p] # NULL
        /\ prior[p].type = "redeem"
        /\ prior[p].customer_id = TokenCustomer(req[p].public_token)
        /\ \E r \in redemptions : /\ r.id = prior[p].external_id
                                  /\ r.reward_id = req[p].reward_id )
      => /\ Ok(p)
         /\ resp[p].idempotent
         /\ resp[p].redemption_id = prior[p].external_id
         /\ LedgerId(p) \notin Ids(ledger_entries)
         /\ RedemptionId(p) \notin Ids(redemptions)
         /\ AuditId(p) \notin Ids(audit_logs)

\* C4: in every committed state no two ledger entries share the same
\* (merchant_id, idempotency_key).
C4_UniqueMerchantKey ==
   \A e1, e2 \in ledger_entries :
      ( /\ e1.merchant_id = e2.merchant_id
        /\ e1.idempotency_key = e2.idempotency_key ) => e1 = e2

\* two requests of different kinds under one (merchant, key) have both
\* committed, and the second had started before the first one's entry was
\* committed
C4_Witness ==
   \E p, q \in Procs :
      /\ p # q
      /\ req[p].op # req[q].op
      /\ req[p].op \in {"earn", "adjust", "redeem"}
      /\ req[q].op \in {"earn", "adjust", "redeem"}
      /\ TokenMerchant(req[p].public_token) = TokenMerchant(req[q].public_token)
      /\ req[p].idempotency_key = req[q].idempotency_key
      /\ Ok(p) /\ ~ resp[p].idempotent
      /\ Ok(q) /\ resp[q].idempotent /\ prior[q] = NULL

Paired(e, r) ==
   /\ e.type = "redeem"
   /\ e.external_id = r.id
   /\ e.merchant_id = r.merchant_id
   /\ e.customer_id = r.customer_id
   /\ r.status = "approved"
   /\ r.points_cost = 0 - e.points_delta

C8_RedeemPairs ==
   /\ \A e \in ledger_entries :
         e.type = "redeem" =>
            /\ Cardinality({ r \in redemptions : r.id = e.external_id }) = 1
            /\ \A r \in redemptions : r.id = e.external_id => Paired(e, r)
   /\ \A r \in redemptions :
         Cardinality({ e \in ledger_entries : Paired(e, r) }) = 1

\* one redeem has committed its pair while another redeem was rolled back
\* after it had inserted its ledger entry
C8_Witness ==
   \E p, q \in Redeemers :
      /\ Ok(p) /\ ~ resp[p].idempotent
      /\ LedgerId(p) \in Ids(ledger_entries)
      /\ Done(q) /\ aborted[q] \in {"rdm_redemption", "rdm_audit"}

Transactional == { p \in Procs : req[p].op \in {"earn", "adjust", "redeem", "rules"} }

WrittenBy(p) ==
   [ ledger_entries |-> LedgerId(p) \in Ids(ledger_entries),
     redemptions |-> RedemptionId(p) \in Ids(redemptions),
     audit_logs |-> AuditId(p) \in Ids(audit_logs),
     loyalty_rules_versions |-> RuleId(p) \in Ids(loyalty_rules_versions) ]

Nothing ==
   [ ledger_entries |-> FALSE, redemptions |-> FALSE, audit_logs |-> FALSE,
     loyalty_rules_versions |-> FALSE ]

\* C9: a redeem, adjust, earn or rule creation whose transaction has not
\* committed (still running, or failed at any statement after BEGIN) has
\* no row in the ledger, redemptions, rule-version or audit tables, and one
\* that has committed has all the rows of its transaction there.
C9_AllOrNothing ==
   \A p \in Transactional :
      /\ ~ Ok(p) => WrittenBy(p) = Nothing
      /\ Ok(p) =>
            WrittenBy(p) =
               [ ledger_entries |->
                    req[p].op \in {"earn", "adjust", "redeem"} /\ ~ resp[p].idempotent,
                 redemptions |-> req[p].op = "redeem" /\ ~ resp[p].idempotent,
                 audit_logs |->
                    \/ req[p].op \in {"adjust", "rules"}
                    \/ req[p].op = "redeem" /\ ~ resp[p].idempotent,
                 loyalty_rules_versions |-> req[p].op = "rules" ]

\* a redeem failed at the redemption insert or at the audit insert, after
\* its ledger insert, while another request has committed rows
C9_Witness ==
   \E p \in Redeemers, q \in Transactional :
      /\ Failed(p, "INTERNAL_SERVER_ERROR")
      /\ aborted[p] \in {"rdm_redemption", "rdm_audit"}
      /\ Ok(q) /\ WrittenBy(q) # Nothing

\* C10: a ledger entry of a committed state is there, with the same field
\* values, in every later state: no step updates or deletes one.
C10_LedgerImmutable == [][ledger_entries \subseteq ledger_entries']_vars

\* an entry is committed and a later request under its key was rolled back
C10_Witness ==
   \E p \in Procs :
      /\ Done(p) /\ aborted[p] \in InTransaction
      /\ prior[p] # NULL /\ prior[p] \in ledger_entries

\* the entries of (m, c) among `rows`
EntriesOf(rows, m, c) ==
   { e \in rows : e.merchant_id = m /\ e.customer_id = c }

\* the sum of points_delta over `rows`, 0 when there are none
Total(rows) == IF rows = {} THEN 0 ELSE SumDelta(rows)

BalanceReads == {"earn_balance", "adj_balance", "rdm_newbalance"}
BalanceCommits == {"earn_commit", "adj_commit", "rdm_commit"}
PoolReads == {"res_balance", "card_balance"}

\* C11: every balance read by earn, adjust and redeem inside their
\* transaction, and every balance returned by them, by token resolve, by the
\* public card and by getBalance, is the sum of points_delta over exactly the
\* ledger entries of that (merchant, customer) visible at the read
\* (committed, or written by the reading transaction), and 0 when there are
\* none.
C11_BalanceDerivation ==
   [][\A p \in Procs :
         LET m == TokenMerchant(req[p].public_token)
             c == TokenCustomer(req[p].public_token)
             visible == ledger_entries \cup tx[p].ledger_entries
         IN  /\ (pc[p] \in BalanceReads /\ pc'[p] \in BalanceCommits)
                   => loc'[p].newBalance = Total(EntriesOf(visible, m, c))
             /\ (pc[p] = "rdm_balance" /\ pc'[p] = "rdm_insert")
                   => loc'[p].balance = Total(EntriesOf(visible, m, c))
             /\ (pc[p] \in BalanceCommits /\ pc'[p] = "done"
                    /\ resp'[p].code = "OK")
                   => resp'[p].balance = loc[p].newBalance
             /\ (pc[p] \in PoolReads /\ pc'[p] = "done")
                   => resp'[p].balance =
                         Total(EntriesOf(ledger_entries, m, c))
             /\ (req[p].op = "balance" /\ pc[p] = "idle" /\ pc'[p] = "done")
                   => resp'[p].balance =
                         Total(EntriesOf(ledger_entries, req[p].merchant_id,
                                         req[p].customer_id))
   ]_vars

\* getBalance has answered 0 for a customer without entries, and a request
\* of the write path has answered the balance that includes its own entry
C11_Witness ==
   \E p, q \in Procs :
      /\ req[p].op = "balance" /\ Ok(p) /\ resp[p].balance = 0
      /\ EntriesOf(ledger_entries, req[p].merchant_id,
                   req[p].customer_id) = {}
      /\ req[q].op \in {"earn", "adjust", "redeem"} /\ Ok(q)
      /\ ~ resp[q].idempotent
      /\ resp[q].balance # 0
      /\ resp[q].balance =
            Total(EntriesOf(ledger_entries, "m1", "c1"))

\* q repeats the request of p after p's entry was committed
Replays(q, p) ==
   /\ p # q
   /\ req[q] = req[p]
   /\ req[p].op \in {"earn", "adjust", "redeem"}
   /\ Ok(p) /\ ~ resp[p].idempotent
   /\ Ok(q) /\ resp[q].idempotent
   /\ prior[q] # NULL
   /\ prior[q].id = LedgerId(p)

\* C12: a request repeated with the same idempotency key returns the balance
\* that the first call returned, whatever other ledger entries of the
\* customer were committed between the two calls.
C12_ReplaySameBalance ==
   \A p, q \in Procs : Replays(q, p) => resp[q].balance = resp[p].balance

\* the balance of request p's customer that a statement of p reads
BalanceUnderLock(p) ==
   Total(EntriesOf(ledger_entries \cup tx[p].ledger_entries,
                   TokenMerchant(req[p].public_token),
                   TokenCustomer(req[p].public_token)))

\* C13: a redeem under a fresh key for an active reward of the customer's
\* merchant fails with INSUFFICIENT_POINTS exactly when the balance read
\* under the lock is strictly below the reward's cost; otherwise it goes on
\* to its insert and, when it commits, answers success with that balance
\* less the cost: with balance equal to the cost it leaves 0, and the next
\* redeem of the reward under a new key fails with INSUFFICIENT_POINTS.
C13_InsufficientExactlyBelowCost ==
   [][\A p \in Procs :
         LET cost == RewardCost(req[p].reward_id)
         IN  /\ (pc[p] = "rdm_balance" /\ pc'[p] # "rdm_balance")
                   => /\ (pc'[p] = "done"
                            /\ resp'[p].code = "INSUFFICIENT_POINTS")
                         <=> (BalanceUnderLock(p) < cost)
                      /\ (pc'[p] = "rdm_insert")
                         <=> (BalanceUnderLock(p) >= cost)
                      /\ pc'[p] = "rdm_insert"
                            => loc'[p].balance = BalanceUnderLock(p)
             /\ (pc[p] = "rdm_commit" /\ pc'[p] = "done")
                   => /\ resp'[p].code = "OK"
                      /\ resp'[p].balance = loc[p].balance - cost
                      /\ resp'[p].balance >= 0
                      /\ (loc[p].balance = cost => resp'[p].balance = 0)
   ]_vars

\* balance 50: the first redeem of the 50-point reward answered success
\* with balance 0 and the later one, under its own key, INSUFFICIENT_POINTS
C13_Witness ==
   /\ SeedBalance = 50
   /\ \E p, q \in Redeemers :
         /\ p < q
         /\ req[p].idempotency_key # req[q].idempotency_key
         /\ req[p].reward_id = "r1" /\ req[q].reward_id = "r1"
         /\ Ok(p) /\ ~ resp[p].idempotent /\ resp[p].balance = 0
         /\ Failed(q, "INSUFFICIENT_POINTS")
         /\ BalanceOf(ledger_entries, "m1", "c1") = 0

\* C14: a redeem fails with NOT_FOUND exactly when its reward is absent,
\* inactive or of another merchant than the customer, and with
\* INSUFFICIENT_POINTS when the balance is below the cost; the step that
\* fails writes no ledger entry, redemption or audit record, the request
\* had written none before, and every customer's balance is what it was.
C14_FailedRedeemWritesNothing ==
   [][\A p \in Procs :
         /\ (pc[p] = "rdm_reward" /\ pc'[p] # "rdm_reward")
               => ((pc'[p] = "done" /\ resp'[p].code = "NOT_FOUND")
                   <=> ~ \E r \in rewards :
                            /\ r.id = req[p].reward_id
                            /\ r.active
                            /\ r.merchant_id =
                                  TokenMerchant(req[p].public_token))
         /\ (pc[p] = "rdm_balance" /\ BalanceUnderLock(p) < loc[p].points_cost
                /\ pc'[p] # "rdm_balance")
               => (pc'[p] = "done" /\ resp'[p].code = "INSUFFICIENT_POINTS")
         /\ (req[p].op = "redeem" /\ pc[p] # "done" /\ pc'[p] = "done"
                /\ resp'[p].code \in {"NOT_FOUND", "INSUFFICIENT_POINTS"})
               => /\ tx[p] = EmptyTx /\ tx'[p] = EmptyTx
                  /\ ledger_entries' = ledger_entries
                  /\ redemptions' = redemptions
                  /\ audit_logs' = audit_logs
                  /\ \A c \in customers :
                        BalanceOf(ledger_entries', c.merchant_id, c.id) =
                        BalanceOf(ledger_entries, c.merchant_id, c.id)
                  /\ ~ \E e \in ledger_entries' : e.id = LedgerId(p)
                  /\ ~ \E r \in redemptions' : r.id = RedemptionId(p)
                  /\ ~ \E a \in audit_logs' : a.id = AuditId(p)
   ]_vars

\* a redeem of another merchant's reward failed with NOT_FOUND, a redeem
\* of a reward the balance does not cover failed with INSUFFICIENT_POINTS,
\* and the tables are as they were before the two requests
C14_Witness ==
   \E p, q \in Redeemers :
      /\ req[p].reward_id = "r4" /\ Failed(p, "NOT_FOUND")
      /\ req[q].reward_id = "r1" /\ Failed(q, "INSUFFICIENT_POINTS")
      /\ ledger_entries = KeyRows(ledger_entries, "m1", "k0")
      /\ redemptions = {} /\ audit_logs = {}

\* the versions of merchant m in effect at the store's clock
Effective(m) ==
   { r \in loyalty_rules_versions : r.merchant_id = m /\ r.active_from <= now }

RuleOf(id) == CHOOSE r \in loyalty_rules_versions : r.id = id

\* C15: an earn computes its points with the version of the customer's
\* merchant that has the highest version number among those in effect at
\* the time of its lookup, and the entry it inserts records that version as
\* rules_version_id and those points; no earn entry names a version of
\* another merchant or one that is not yet in effect.
C15_RuleResolution ==
   [][\A p \in Procs :
         LET m == TokenMerchant(req[p].public_token)
         IN  /\ (pc[p] = "earn_rules" /\ pc'[p] = "earn_insert")
                   => \E r \in Effective(m) :
                         /\ \A o \in Effective(m) : o.version <= r.version
                         /\ loc'[p].rules_id = r.id
                         /\ loc'[p].points = computePoints(req[p].amount, r)
             /\ (pc[p] = "earn_insert" /\ pc'[p] = "earn_balance")
                   => \E e \in tx'[p].ledger_entries :
                         /\ e.id = LedgerId(p)
                         /\ e.rules_version_id = loc[p].rules_id
                         /\ e.points_delta = loc[p].points
             /\ \A e \in ledger_entries' :
                   (e.id = LedgerId(p) /\ e.type = "earn")
                      => /\ e.rules_version_id \in
                               { r.id : r \in loyalty_rules_versions' }
                         /\ RuleOf(e.rules_version_id)'.merchant_id
                               = e.merchant_id
                         /\ RuleOf(e.rules_version_id)'.active_from <= now'
   ]_vars

\* an earn entry of m1 is committed under version 1 while a higher version
\* of m1 exists that is not yet in effect
C15_Witness ==
   \E p \in Procs : \E e \in ledger_entries :
      /\ e.id = LedgerId(p)
      /\ RuleOf(e.rules_version_id).version = 1
      /\ \E r \in loyalty_rules_versions :
            /\ r.merchant_id = e.merchant_id
            /\ r.version > 1
            /\ r.active_from > now

\* C16: an earn whose merchant has no rule version in effect at its lookup
\* fails with RULES_MISSING, and only such an earn does; it has opened no
\* transaction, and the step leaves the ledger as it was, so no entry of the
\* request is ever committed.
C16_RulesMissing ==
   [][\A p \in Procs :
         /\ (pc[p] = "earn_rules" /\ pc'[p] # "earn_rules")
               => ((pc'[p] = "done" /\ resp'[p].code = "RULES_MISSING")
                   <=> Effective(TokenMerchant(req[p].public_token)) = {})
         /\ (pc[p] # "done" /\ pc'[p] = "done"
                /\ resp'[p].code = "RULES_MISSING")
               => /\ tx'[p] = EmptyTx
                  /\ ledger_entries' = ledger_entries
         /\ (pc'[p] = "done" /\ resp'[p].code = "RULES_MISSING")
               => ~ \E e \in ledger_entries' : e.id = LedgerId(p)
   ]_vars

\* an earn of m2 failed with RULES_MISSING although m2 has a version, which
\* takes effect later
C16_Witness ==
   \E p \in Procs :
      /\ req[p].op = "earn"
      /\ Failed(p, "RULES_MISSING")
      /\ \E r \in loyalty_rules_versions :
            /\ r.merchant_id = TokenMerchant(req[p].public_token)
            /\ r.active_from > now
      /\ \A e \in ledger_entries : e.merchant_id # "m2"

RulesOf(m) == { r \in loyalty_rules_versions : r.merchant_id = m }

RuleMakers == { p \in Procs : req[p].op = "rules" }

\* C17: in every committed state no two rule versions of one merchant have
\* the same version number, also when rule creations of the merchant ran
\* concurrently and read the same maximum.
C17_UniqueVersion ==
   \A r1, r2 \in loyalty_rules_versions :
      (r1.merchant_id = r2.merchant_id /\ r1.version = r2.version)
         => r1 = r2

\* two rule creations of one merchant had both computed the same next
\* version; one has committed it and the other has answered
C17_Witness ==
   \E p, q \in RuleMakers :
      /\ p # q
      /\ req[p].merchant_id = req[q].merchant_id
      /\ Ok(p) /\ Done(q)
      /\ aborted[q] = "rul_insert"
      /\ \E r \in loyalty_rules_versions :
            r.id = RuleId(p) /\ r.version = resp[p].version

\* C18: a rule creation that succeeds returns and stores the maximum
\* committed version of its merchant at its commit plus 1, so the versions
\* of a merchant are exactly 1..N in every committed state; one that loses
\* the race for a version number fails and leaves no rule row and no audit
\* record.
C18_NextVersion ==
   [][/\ \A p \in Procs :
            /\ (pc[p] = "rul_commit" /\ pc'[p] = "done"
                   /\ resp'[p].code = "OK")
                  => /\ resp'[p].version =
                           MaxVersion(RulesOf(req[p].merchant_id)) + 1
                     /\ \E r \in loyalty_rules_versions' :
                           /\ r.id = RuleId(p)
                           /\ r.merchant_id = req[p].merchant_id
                           /\ r.version = resp'[p].version
            /\ (req[p].op = "rules" /\ pc'[p] = "done"
                   /\ resp'[p].code # "OK")
                  => /\ ~ \E r \in loyalty_rules_versions' : r.id = RuleId(p)
                     /\ ~ \E a \in audit_logs' : a.id = AuditId(p)
      /\ \A m \in merchants :
            { r.version : r \in RulesOf(m)' } = 1 .. Cardinality(RulesOf(m)')
   ]_vars

\* the first version of m2 was created as version 1, and a concurrent
\* creation for m2 that had also computed version 1 has failed
C18_Witness ==
   \E p, q \in RuleMakers :
      /\ p # q
      /\ req[p].merchant_id = "m2" /\ req[q].merchant_id = "m2"
      /\ Ok(p) /\ resp[p].version = 1
      /\ Failed(q, "INTERNAL_SERVER_ERROR")
      /\ Cardinality(RulesOf("m2")) = 1

\* C19: a rule version that exists stays, with the same merchant, version
\* number, points per unit, rounding, multiplier and effective-from, in
\* every later state; a policy change only adds a row.
C19_RulesImmutable ==
   [][loyalty_rules_versions \subseteq loyalty_rules_versions']_vars

\* a rule creation of m1 has committed a new version and the version that
\* was there before is still there
C19_Witness ==
   \E p \in RuleMakers :
      /\ Ok(p)
      /\ \E r \in SeedRules : r \in RulesOf(req[p].merchant_id)
      /\ \E r \in RulesOf(req[p].merchant_id) : r.id = RuleId(p)

\* C20: for every positive amount and every rule with positive points per
\* unit and positive multiplier, the points an earn writes are a
\* non-negative integer: amount x points_per_unit x multiplier rounded
\* down when the mode is floor, and rounded to the nearest integer, exact
\* halves up, when the mode is nearest.
C20_PointsExact ==
   \A p \in Earners : \A e \in ledger_entries :
      e.id = LedgerId(p)
         => /\ e.points_delta >= 0
            /\ e.points_delta =
                  exactPoints(req[p].amount, RuleOf(e.rules_version_id))

AuditsOf(action) == { a \in audit_logs : a.action = action }

\* the rule versions created by a request (the others were seeded)
CreatedRules ==
   { r \in loyalty_rules_versions : \E p \in Procs : r.id = RuleId(p) }

\* C21: in every committed state each redemption record has exactly one
\* 'redemption_created' audit record and each rule version created by a
\* request exactly one 'rules_version_created' audit record, committed with
\* it, and there are no other audit records of these actions; a request
\* that was answered as a replay or that failed has committed none.
C21_OneAuditPerWrite ==
   /\ \A r \in redemptions :
         Cardinality({ a \in AuditsOf("redemption_created") :
                          a.target_id = r.id
                          /\ a.merchant_id = r.merchant_id }) = 1
   /\ \A a \in AuditsOf("redemption_created") :
         \E r \in redemptions : r.id = a.target_id
   /\ Cardinality(AuditsOf("redemption_created")) = Cardinality(redemptions)
   /\ \A r \in CreatedRules :
         Cardinality({ a \in AuditsOf("rules_version_created") :
                          a.target_id = r.id
                          /\ a.merchant_id = r.merchant_id }) = 1
   /\ \A a \in AuditsOf("rules_version_created") :
         \E r \in CreatedRules : r.id = a.target_id
   /\ Cardinality(AuditsOf("rules_version_created"))
         = Cardinality(CreatedRules)
   /\ \A p \in Procs :
         (Done(p) /\ req[p].op \in {"redeem", "rules"}
             /\ (resp[p].code # "OK" \/ resp[p].idempotent))
            => ~ \E a \in audit_logs : a.id = AuditId(p)

\* a redeem has committed its entry, redemption and audit record, and a
\* second redeem under the same key was answered as a replay
C21_Witness ==
   \E p, q \in Redeemers :
      /\ p # q
      /\ Ok(p) /\ ~ resp[p].idempotent
      /\ Ok(q) /\ resp[q].idempotent
      /\ Cardinality(redemptions) = 1
      /\ \E a \in audit_logs :
            a.id = AuditId(p) /\ a.target_id = resp[p].redemption_id

\* C22: in every committed state, for every idempotency key used by an
\* adjust, the 'adjustment_created' audit records of that key are as many
\* as the adjust ledger entries of that key (one), however often the
\* adjust request is replayed.
C22_OneAuditPerAdjust ==
   \A e \in ledger_entries :
      e.type = "adjust"
         => Cardinality({ a \in AuditsOf("adjustment_created") :
                             /\ a.merchant_id = e.merchant_id
                             /\ a.idempotency_key = e.idempotency_key })
            = Cardinality({ x \in KeyRows(ledger_entries, e.merchant_id,
                                          e.idempotency_key) :
                               x.type = "adjust" })

\* the statements of a redeem between taking the lock and COMMIT
UnderLock ==
   { "rdm_reward", "rdm_balance", "rdm_insert", "rdm_existing",
     "rdm_redemption", "rdm_audit", "rdm_newbalance", "rdm_commit" }

AllDone == \A p \in Procs : req[p].op # "none" => Done(p)

WaitsFor(p, q) ==
   \/ /\ pc[p] = "rdm_lock"
      /\ q \in row_lock[loc[p].customer_id]
   \/ /\ pc[p] \in {"earn_insert", "adj_insert", "rdm_insert"}
      /\ KeyRows(tx[q].ledger_entries, loc[p].merchant_id,
                 req[p].idempotency_key) # {}

\* C24: no earn, redeem or adjust ever waits for a request of a different
\* customer of the same merchant, whatever idempotency keys the two carry.
C24_CustomersNeverBlock ==
   \A p, q \in Procs :
      ( /\ p # q
        /\ req[p].op # "none" /\ req[q].op # "none"
        /\ TokenMerchant(req[p].public_token)
              = TokenMerchant(req[q].public_token)
        /\ TokenCustomer(req[p].public_token)
              # TokenCustomer(req[q].public_token) )
      => ~ WaitsFor(p, q)

Writers == { p \in Procs : req[p].op \in {"earn", "redeem", "adjust"} }

\* the rows that do not belong to the merchant and customer of request p
RowsOfOthers(rows, p) ==
   rows \ EntriesOf(rows, TokenMerchant(req[p].public_token),
                    TokenCustomer(req[p].public_token))

\* C25: a step of an earn, redeem or adjust for (merchant M, customer C),
\* whether the request creates an entry, replays one or fails, leaves the
\* ledger entries, the redemptions and the balance of every other customer
\* of M and of every customer of another merchant as they were, and the
\* request never holds an uncommitted row of another customer.
C25_FrameOfWrites ==
   [][\A p \in Writers :
         pc'[p] # pc[p] =>
            /\ RowsOfOthers(ledger_entries', p) = RowsOfOthers(ledger_entries, p)
            /\ RowsOfOthers(redemptions', p) = RowsOfOthers(redemptions, p)
            /\ RowsOfOthers(tx'[p].ledger_entries, p) = {}
            /\ RowsOfOthers(tx'[p].redemptions, p) = {}
            /\ \A c \in customers :
                  << c.merchant_id, c.id >>
                        # << TokenMerchant(req[p].public_token),
                             TokenCustomer(req[p].public_token) >>
                  => BalanceOf(ledger_entries', c.merchant_id, c.id)
                        = BalanceOf(ledger_entries, c.merchant_id, c.id)]_vars

\* customer c1 has a balance, an adjust of customer c2 has created its entry
\* and a request of c1 under the same key was answered as a replay
C25_Witness ==
   \E p, q \in Writers :
      /\ TokenCustomer(req[p].public_token) = "c2"
      /\ TokenCustomer(req[q].public_token) = "c1"
      /\ req[p].idempotency_key = req[q].idempotency_key
      /\ Ok(p) /\ ~ resp[p].idempotent
      /\ Ok(q) /\ resp[q].idempotent
      /\ BalanceOf(ledger_entries, "m1", "c1") = 50
      /\ BalanceOf(ledger_entries, "m1", "c2") = 0 - 50

\* the replay lookups of the three handlers
ReplayLookups == {"earn_existing", "adj_existing", "rdm_existing"}

\* C26: an earn, redeem or adjust whose insert was skipped on a key conflict
\* and whose lookup then finds no entry under the key ends there: it answers
\* IDEMPOTENT_REPLAY (409), not success and not idempotent=true, names no
\* entry, its transaction is rolled back and no table changes; a request
\* that answered so has no row in any table.
C26_ConflictWithoutEntry ==
   /\ [](\A p \in Writers :
            Failed(p, "IDEMPOTENT_REPLAY") =>
               /\ WrittenBy(p) = Nothing
               /\ ~ resp[p].idempotent
               /\ resp[p].ledger_entry_id = NULL)
   /\ [][\A p \in Writers :
            ( /\ pc[p] \in ReplayLookups
              /\ pc'[p] # pc[p]
              /\ KeyRows(VisibleLedger(p), loc[p].merchant_id,
                         req[p].idempotency_key) = {} )
            => /\ pc'[p] = "done"
               /\ resp'[p].code = "IDEMPOTENT_REPLAY"
               /\ tx'[p] = EmptyTx
               /\ \A c \in CustomerIds : p \notin row_lock'[c]
               /\ ledger_entries' = ledger_entries
               /\ redemptions' = redemptions
               /\ audit_logs' = audit_logs]_vars

\* a redeem met the key of a committed entry, the entry was gone at its
\* lookup, and it answered IDEMPOTENT_REPLAY
C26_Witness ==
   \E p \in Redeemers :
      /\ Failed(p, "IDEMPOTENT_REPLAY")
      /\ aborted[p] = "rdm_existing"
      /\ prior[p] # NULL /\ prior[p] \notin ledger_entries

\* the malformed bodies: an earn amount that is not positive, a key shorter
\* than 8 characters, a token shorter than 16, a reward id that is no UUID
Malformed(r) ==
   \/ r.op = "earn" /\ r.amount <= 0
   \/ Length(r.idempotency_key) < 8
   \/ Length(r.public_token) < 16
   \/ r.op = "redeem" /\ ~ IsUuid(r.reward_id)

\* C27: an earn, redeem or adjust with a malformed body never begins a
\* transaction, is answered with a validation error, and leaves the ledger,
\* redemptions and audit tables as they were.
C27_MalformedRejected ==
   \A p \in Writers :
      Malformed(req[p]) =>
         /\ pc[p] \in {"idle", "done"}
         /\ tx[p] = EmptyTx
         /\ WrittenBy(p) = Nothing
         /\ Done(p) => resp[p].code = "VALIDATION_ERROR"

\* no row holds the token, or the row that holds it has status revoked
UnknownOrRevoked(t) == t \notin PublicTokens \/ token_status[t] = "revoked"

\* C28: the token lookup of an earn, redeem or adjust that presents a token
\* no row holds, or one whose status is revoked at that moment, ends the
\* request with NOT_FOUND and changes no table; such a request never has a
\* ledger entry, redemption or audit record, committed or pending.
C28_TokenNotFound ==
   /\ [](\A p \in Writers :
            ( /\ Started(p)
              /\ \/ req[p].public_token \notin PublicTokens
                 \/ Failed(p, "NOT_FOUND") )
            => Done(p) /\ WrittenBy(p) = Nothing /\ tx[p] = EmptyTx)
   /\ [][\A p \in Writers :
            ( /\ pc[p] = "idle" /\ pc'[p] # "idle"
              /\ UnknownOrRevoked(req[p].public_token) )
            => /\ pc'[p] = "done"
               /\ resp'[p].code = "NOT_FOUND"
               /\ ledger_entries' = ledger_entries
               /\ redemptions' = redemptions
               /\ audit_logs' = audit_logs
               /\ tx' = tx]_vars

\* the token of customer c1 was revoked and a request that presented it
\* afterwards was answered NOT_FOUND, with nothing written
C28_Witness ==
   \E p, q \in Procs :
      /\ req[p].op = "revoke" /\ Done(p)
      /\ token_status["t1"] = "revoked"
      /\ req[q].op \in {"earn", "redeem", "adjust"}
      /\ req[q].public_token = "t1"
      /\ Failed(q, "NOT_FOUND")
      /\ WrittenBy(q) = Nothing

\* the stored role of the staff user a request is authenticated as, "none"
\* when there is no header, the token does not verify, or the staff user is
\* unknown to the merchant or disabled
StoredRole(r) ==
   LET h == r.authorization
       u == { x \in staff_users :
                 x.id = h.sub /\ x.merchant_id = h.merchant_id /\ ~ x.disabled }
   IN  IF h.kind = "jwt" /\ u # {} THEN (CHOOSE x \in u : TRUE).role
       ELSE "none"

\* the requests whose handler has been entered
InHandler(p) == req[p].op # "none" /\ pc[p] \notin {"arrived", "role", "done"}

\* C29: the handler of an adjust or of a token revocation is entered, and
\* its rows are written, only for a request authenticated as a non-disabled
\* owner; that of a rule version only for an owner or manager; those of earn
\* and redeem only for an owner, manager or cashier; a token becomes revoked
\* only through a revocation by an owner; and no step of a request whose
\* staff user is missing, unknown or disabled changes the store.
C29_RoleGating ==
   /\ [](\A p \in Procs :
            (InHandler(p) \/ WrittenBy(p) # Nothing \/ Ok(p)) =>
               CASE req[p].op \in {"adjust", "revoke"} ->
                       StoredRole(req[p]) = "owner"
                 [] req[p].op = "rules" ->
                       StoredRole(req[p]) \in {"owner", "manager"}
                 [] req[p].op \in {"earn", "redeem"} ->
                       StoredRole(req[p]) \in {"owner", "manager", "cashier"}
                 [] OTHER -> FALSE)
   /\ [](\A t \in PublicTokens :
            token_status[t] = "revoked" =>
               \E p \in Procs :
                  /\ req[p].op = "revoke" /\ req[p].public_token = t
                  /\ StoredRole(req[p]) = "owner")
   /\ [][\A p \in Procs :
            (pc'[p] # pc[p] /\ StoredRole(req[p]) = "none")
            => /\ pc'[p] = "done"
               /\ resp'[p].code \in {"UNAUTHENTICATED", "FORBIDDEN"}
               /\ << db, token_status, tx, row_lock >>'
                     = << db, token_status, tx, row_lock >>]_vars

\* the owner's adjust has committed its entry and the manager's adjust under
\* the same body was refused
C29_Witness ==
   \E p, q \in Procs :
      /\ req[p].op = "adjust" /\ StoredRole(req[p]) = "owner"
      /\ Ok(p) /\ WrittenBy(p).ledger_entries
      /\ req[q].op = "adjust" /\ StoredRole(req[q]) = "manager"
      /\ Failed(q, "FORBIDDEN") /\ WrittenBy(q) = Nothing

Listers == { p \in Procs : req[p].op = "ledger" }

\* C30: the ledger listing of (merchant, customer) returns entries of that
\* merchant and customer only, each once, newest first by created_at, and
\* as many as there are up to 100; with more than 100, every entry left out
\* is no newer than any entry returned.
C30_LedgerListing ==
   \A p \in Listers :
      Done(p) =>
         LET out   == resp[p].entries
             match == EntriesOf(ledger_entries, req[p].merchant_id,
                                req[p].customer_id)
             ids   == { out[i].id : i \in 1 .. Len(out) }
         IN  /\ resp[p].code = "OK"
             /\ Len(out) = IF Cardinality(match) < 100
                           THEN Cardinality(match) ELSE 100
             /\ Cardinality(ids) = Len(out)
             /\ \A i \in 1 .. Len(out) :
                   \E e \in match :
                      /\ e.id = out[i].id
                      /\ e.created_at = out[i].created_at
                      /\ e.points_delta = out[i].points_delta
                      /\ e.type = out[i].type /\ e.source = out[i].source
             /\ \A i \in 1 .. Len(out) - 1 :
                   out[i].created_at >= out[i + 1].created_at
             /\ \A e \in match :
                   e.id \notin ids =>
                      \A i \in 1 .. Len(out) : out[i].created_at >= e.created_at

\* customer c1 has more than 100 entries, some of equal creation time, and
\* the listing has returned 100 of them, the newest first
C30_Witness ==
   \E p \in Listers :
      /\ Done(p)
      /\ req[p].merchant_id = "m1" /\ req[p].customer_id = "c1"
      /\ Cardinality(EntriesOf(ledger_entries, "m1", "c1")) > 100
      /\ Len(resp[p].entries) = 100
      /\ resp[p].entries[1].created_at > resp[p].entries[100].created_at
      /\ resp[p].entries[2].created_at = resp[p].entries[3].created_at

\* ----------------------------------------------------------------- C31
\* the public tokens ever issued to customer c of merchant m
TokensIssuedTo(m, c) ==
   { t.public_token : t \in
        { r \in TokenRows : r.merchant_id = m /\ r.customer_id = c }
        \cup { r \in session_rows.customer_tokens :
                  r.merchant_id = m /\ r.customer_id = c } }

OneCustomerPerDevice ==
   \A r1, r2 \in session_rows.customer_devices :
      (r1.merchant_id = r2.merchant_id /\ r1.device_id = r2.device_id)
         => r1 = r2

\* request p, whose device lookup found the device bound, is answered
AnswersBoundDevice(p) == pc[p] = "ses_token" /\ pc'[p] = "done"

\* C31: in every state at most one customer is bound to a (merchant,
\* device_id), also when two session inits for the same new device run
\* concurrently; and a session init for a device that is already bound is
\* answered with a public token of the bound customer and creates no
\* customer, token or device row.
C31_DeviceSessions ==
   /\ []OneCustomerPerDevice
   /\ [][\A p \in Procs :
            AnswersBoundDevice(p) =>
               /\ resp'[p].code = "OK"
               /\ resp'[p].public_token \in
                     TokensIssuedTo(loc[p].merchant_id, loc[p].customer_id)
               /\ session_rows' = session_rows]_vars

\* ----------------------------------------------------------------- C32
\* request p commits a ledger entry of its own and replies
CreatesEntry(p) ==
   /\ pc[p] \in {"earn_commit", "adj_commit", "rdm_commit"}
   /\ pc'[p] = "done"
   /\ resp'[p].code = "OK"
   /\ ~resp'[p].idempotent

\* the delta the request asks for
RequestedDelta(p) ==
   IF req[p].op = "earn"
   THEN computePoints(req[p].amount,
                      CHOOSE r \in ActiveRules(loc[p].merchant_id) : TRUE)
   ELSE IF req[p].op = "adjust" THEN req[p].points_delta
   ELSE 0 - RewardCost(req[p].reward_id)

\* C32: when an earn, adjust or redeem creates a new ledger entry and no
\* other operation on the same customer runs concurrently, the balance it
\* returns is the customer's balance before the call plus the entry's
\* delta: the computed points for earn, the signed delta for adjust (with
\* no lower bound on the result) and minus the reward's cost for redeem.
C32_BalanceAfterWrite ==
   [][\A p \in Procs :
         CreatesEntry(p) =>
            resp'[p].balance =
               BalanceOf(ledger_entries, loc[p].merchant_id,
                         loc[p].customer_id) + RequestedDelta(p)]_vars

\* an adjust has taken a customer's balance below zero, and an earn and a
\* redeem have each created an entry
C32_Witness ==
   /\ \E p \in Procs :
         Ok(p) /\ req[p].op = "adjust" /\ ~resp[p].idempotent
               /\ resp[p].balance < 0
   /\ \E p \in Procs :
         Ok(p) /\ req[p].op \in {"earn", "redeem"} /\ ~resp[p].idempotent

\* ----------------------------------------------------------------- C33
\* the committed rows that request p inserted into a table
RowsWrittenBy(p) ==
   { e \in ledger_entries : e.id = LedgerId(p) }
      \cup { r \in redemptions : r.id = RedemptionId(p) }
      \cup { a \in audit_logs : a.id = AuditId(p) }

\* C33: every ledger entry, redemption and audit record written by earn,
\* redeem or adjust carries the merchant_id of the authenticated staff user
\* who made the request, so that staff of one merchant never create a
\* ledger entry or redemption for a customer of another merchant.
C33_TenantConfinement ==
   \A p \in Procs :
      \A row \in RowsWrittenBy(p) :
         row.merchant_id = req[p].authorization.merchant_id

\* ----------------------------------------------------------------- C34
\* the committed ledger entries under the key of request p, in the merchant
\* of the token it presented
FoundUnderKey(p) ==
   KeyRows(ledger_entries, TokenMerchant(req[p].public_token),
           req[p].idempotency_key)

\* C34: whenever earn, redeem or adjust answers idempotent=true, the ledger
\* entry under the request's idempotency key belongs to the customer of the
\* request and has the type of the request; a key already used by another
\* customer or another operation type of the merchant is never reported as
\* a successful replay.
C34_ReplayOfSameOperation ==
   \A p \in Procs :
      (Ok(p) /\ resp[p].idempotent) =>
         \A e \in FoundUnderKey(p) :
            /\ e.customer_id = TokenCustomer(req[p].public_token)
            /\ e.type = req[p].op

\* ----------------------------------------------------------------- C35
\* C35: whenever redeem returns success, the returned redemption_id is the
\* id of a committed redemption record of the same merchant and customer,
\* also when the request is answered as an idempotent replay, whatever the
\* earlier use of the idempotency key was.
C35_RedemptionExists ==
   \A p \in Procs :
      (Ok(p) /\ req[p].op = "redeem") =>
         \E r \in redemptions :
            /\ r.id = resp[p].redemption_id
            /\ r.merchant_id = TokenMerchant(req[p].public_token)
            /\ r.customer_id = TokenCustomer(req[p].public_token)

\* ----------------------------------------------------------------- C36
\* C36: the points_delta returned by earn equals the points_delta of the
\* stored ledger entry named by the returned ledger_entry_id, also on a
\* replay whose amount differs from the original request's amount.
C36_EarnReturnsStoredPoints ==
   \A p \in Procs :
      (Ok(p) /\ req[p].op = "earn") =>
         \E e \in ledger_entries :
            /\ e.id = resp[p].ledger_entry_id
            /\ e.points_delta = resp[p].points_delta

\* ----------------------------------------------------------------- C37
\* C37: in every execution that consists of earn and redeem requests only,
\* in any number and any interleaving, the balance of every customer is
\* >= 0 in every committed state.
C37_BalanceNeverNegative ==
   \A m \in merchants :
      \A c \in CustomerIds : BalanceOf(ledger_entries, m, c) >= 0

\* two redeems and an earn have each committed an entry, and the redeems
\* have spent every point of customer c1
C37_Witness ==
   /\ BalanceOf(ledger_entries, "m1", "c1") = 0
   /\ \E p, q \in Procs :
         /\ p # q
         /\ req[p].op = "redeem" /\ req[q].op = "redeem"
         /\ Ok(p) /\ ~resp[p].idempotent
         /\ Ok(q) /\ ~resp[q].idempotent
   /\ \E p \in Procs : Ok(p) /\ req[p].op = "earn" /\ ~resp[p].idempotent

\* ----------------------------------------------------------------- C38
\* the token that request p presented has been revoked
PresentedRevoked(p) ==
   /\ req[p].op \in {"earn", "adjust", "redeem"}
   /\ req[p].public_token \in PublicTokens
   /\ token_status[req[p].public_token] = "revoked"

\* this step commits a ledger entry inserted by request p
CommitsEntry(p) ==
   \E e \in ledger_entries' \ ledger_entries : e.id = LedgerId(p)

\* C38: after a token revocation has committed, no ledger entry is committed
\* any more by a request that presented that token, including earn, redeem
\* and adjust requests that had passed their token lookup before the
\* revocation committed.
C38_NoEntryAfterRevocation ==
   [][\A p \in Procs : PresentedRevoked(p) => ~CommitsEntry(p)]_vars

====
